---------------------------- MODULE Spec2Model ----------------------------
(***************************************************************************)
(* A model of the obligator identity broker: the downstream OIDC           *)
(* authorization server (/register, /auth, /approve, /token, /userinfo)    *)
(* and the upstream OAuth2/OIDC login (/login-oauth2, /callback), together *)
(* with one user agent (a cookie jar) and one relying party.               *)
(*                                                                         *)
(* Time is counted in whole seconds, the precision of the numeric dates    *)
(* (iat, exp) of a signed envelope.  A signed envelope (JWT) is a record   *)
(*   [sig, iat, exp, claims]                                               *)
(* where sig names the key that signed it.  Strings that the code takes    *)
(* apart (the scope) are sequences of one-character strings.               *)
(***************************************************************************)
EXTENDS Integers, Sequences, FiniteSets, TLC

(***************************************************************************)
(* Bounds of the model.                                                    *)
(***************************************************************************)
MaxTicks == 2
MaxIdentities == 2
MaxLogins == 1
MaxRedeem == 2
MaxSent == 1

(***************************************************************************)
(* Program constants (seconds).                                            *)
(***************************************************************************)
AuthRequestMaxAge == 480
UpstreamRequestMaxAge == 480
CodeTTL == 16
AccessTokenTTL == 16
IdTokenTTL == 86400
ExpiresIn == 3600

\* The lifetime of the session cookie, which addIdentToCookie and
\* addLoginToCookie build, and of an upstream provider's ID token.
SessionTTL == 86400
UpstreamIdTokenTTL == 3600

(***************************************************************************)
(* Keys.  ServerKey is the key of storage.GetJWKSet(); publicJwks is its   *)
(* public view.  An envelope signed by anybody else carries another name.  *)
(***************************************************************************)
ServerKey == "obligator"
ForgedKey == "forged"
publicJwks == {ServerKey}

RootUri == "https://auth.example"

\* An absent cookie, token or field.
None == [sig |-> "absent"]
\* A cookie whose value is not a JWT at all (for instance the empty string).
Garbage == [sig |-> "garbage"]

(***************************************************************************)
(* Strings as sequences of characters.                                     *)
(***************************************************************************)
SP == " "
S_openid == <<"o","p","e","n","i","d">>
S_email == <<"e","m","a","i","l">>
S_profile == <<"p","r","o","f","i","l","e">>
S_empty == <<>>

\* The scope values a relying party sends on /auth.
Scopes ==
  { S_empty,
    S_openid,
    S_openid \o <<SP>> \o S_email,
    S_openid \o <<SP>> \o S_profile,
    S_profile \o <<SP>> \o S_email,
    S_email \o S_profile }

\* strings.Index(s, sep) for a one-character sep, 1-based; 0 when absent.
IndexOf(s, sep) ==
  IF \E i \in 1..Len(s) : s[i] = sep
  THEN CHOOSE i \in 1..Len(s) : s[i] = sep /\ \A j \in 1..(i-1) : s[j] # sep
  ELSE 0

\* strings.Split(s, sep) for a one-character sep.
RECURSIVE StringsSplit(_, _)
StringsSplit(s, sep) ==
  LET i == IndexOf(s, sep)
  IN IF i = 0 THEN <<s>>
     ELSE <<SubSeq(s, 1, i - 1)>> \o StringsSplit(SubSeq(s, i + 1, Len(s)), sep)

(***************************************************************************)
(* jwt: building, signing, parsing.                                        *)
(***************************************************************************)
\* jwt.NewBuilder().IssuedAt(t).Expiration(t+ttl)...Build() and jwt.Sign
\* with the server's key.
JwtSign(t, ttl, claims) ==
  [sig |-> ServerKey, iat |-> t, exp |-> t + ttl, claims |-> claims]

JwtParseUnverified(tok, keyset, t) ==
  /\ "iat" \in DOMAIN tok
  /\ tok.iat <= t
  /\ t < tok.exp

JwtParseInclusive(tok, keyset, t) ==
  /\ tok.sig \in keyset
  /\ tok.iat <= t
  /\ t <= tok.exp

\* jwt.Parse(tok, jwt.WithKeySet(keyset)) succeeds: the signature verifies
\* against the key set and the token validates at time t ("iat" not in the
\* future, "exp" strictly after now).
JwtParse(tok, keyset, t) ==
  /\ tok.sig \in keyset
  /\ tok.iat <= t
  /\ t < tok.exp

\* token.Get(name): whether the claim exists.
HasClaim(tok, name) ==
  "claims" \in DOMAIN tok /\ name \in DOMAIN tok.claims

\* claimFromToken(name, token): the claim, or "" when it is missing.
claimFromToken(name, tok) ==
  IF HasClaim(tok, name) THEN tok.claims[name] ELSE ""

\* token.Subject()
Subject(tok) == IF HasClaim(tok, "sub") THEN tok.claims["sub"] ELSE ""

\* openid token.Email(): "" when the claim was never set.
TokenEmail(claims) == IF "email" \in DOMAIN claims THEN claims["email"] ELSE ""

\* Hash(cookieValue): an injective hash of the cookie value.
Hash(value) == [hash_of |-> value]

(***************************************************************************)
(* PKCE.                                                                   *)
(***************************************************************************)
Verifiers == {"", "v1", "v2"}

\* GeneratePKCECodeChallenge: base64url_nopad(SHA-256(verifier)).  SHA-256 is
\* injective on the verifiers of the model and never yields the empty string.
GeneratePKCECodeChallenge(verifier) ==
  CASE verifier = "" -> "47DEQpj8HBSa"
    [] verifier = "v1" -> "sha256-v1"
    [] verifier = "v2" -> "sha256-v2"

\* The code_challenge values a relying party sends on /auth.
Challenges == {"", "sha256-v1", "47DEQpj8HBSa"}

(***************************************************************************)
(* URIs: url.Parse on the URIs of the model.                               *)
(***************************************************************************)
Uris ==
  { "", "https://rp.example", "https://rp.example/cb",
    "https://evil.example/cb", "%zz" }

UrlParseOk(u) == u # "%zz"

\* url.Parse(u).Host.  The host is unescaped: "%25" stands for a percent
\* sign, and an escape of a byte above 0x7f for that byte ("%bc" for the
\* byte written <BC> here).
UrlHost(u) ==
  CASE u \in {"https://rp.example", "https://rp.example/cb"} -> "rp.example"
    [] u \in {"https://evil.example", "https://evil.example/cb"} -> "evil.example"
    [] u = "https://a%25bc/cb" -> "a%bc"
    [] u = "https://a%bc" -> "a<BC>"
    [] OTHER -> ""

\* fmt.Sprintf("https://%s", host)
HttpsUri(host) ==
  CASE host = "rp.example" -> "https://rp.example"
    [] host = "evil.example" -> "https://evil.example"
    [] host = "a%bc" -> "https://a%bc"
    [] OTHER -> "https://"

(***************************************************************************)
(* Text of a URL.  A string that ends up in a Location header is a         *)
(* sequence of atoms: a reserved character, or a run of text without one.  *)
(* fmt.Sprintf concatenates its arguments as they are, without escaping.   *)
(***************************************************************************)
Lit(s) == [lit |-> s]
Delim(c) == [ch |-> c]
IsDelim(a, c) == "ch" \in DOMAIN a /\ a.ch = c

\* The characters of a form value after r.ParseForm has decoded it: the
\* values of the model are free of reserved characters except "a&b".
Chars(s) ==
  CASE s = "" -> <<>>
    [] s = "a&b" -> <<Lit("a"), Delim("&"), Lit("b")>>
    [] OTHER -> <<Lit(s)>>

\* The place of the first character c of a text, 0 when it has none.
RECURSIVE FirstDelim(_, _, _)
FirstDelim(text, c, i) ==
  IF i > Len(text) THEN 0
  ELSE IF IsDelim(text[i], c) THEN i
  ELSE FirstDelim(text, c, i + 1)

\* strings.Cut(text, c): what is before and after the first c.
Before(text, c) ==
  LET i == FirstDelim(text, c, 1)
  IN IF i = 0 THEN text ELSE SubSeq(text, 1, i - 1)

After(text, c) ==
  LET i == FirstDelim(text, c, 1)
  IN IF i = 0 THEN <<>> ELSE SubSeq(text, i + 1, Len(text))

\* strings.Split(text, c)
RECURSIVE SplitText(_, _)
SplitText(text, c) ==
  IF FirstDelim(text, c, 1) = 0 THEN <<text>>
  ELSE <<Before(text, c)>> \o SplitText(After(text, c), c)

\* The value a text stands for: the string, or the signed token, it
\* consists of.
Text(text) ==
  IF Len(text) = 0 THEN ""
  ELSE IF Len(text) > 1 THEN text
  ELSE IF "lit" \in DOMAIN text[1] THEN text[1].lit
  ELSE text[1]

\* url.ParseQuery(rawQuery) with Values.Get: the pairs are cut at every "&",
\* each at its first "=", and the first value of a key is the one read.
ParseQuery(rawQuery) ==
  LET pairs == SplitText(rawQuery, "&")
      set == {i \in 1..Len(pairs) : Len(pairs[i]) > 0}
      key(i) == Text(Before(pairs[i], "="))
      first(k) == CHOOSE i \in set :
                    key(i) = k /\ \A j \in set : key(j) = k => i <= j
  IN [k \in {key(i) : i \in set} |-> Text(After(pairs[first(k)], "="))]

\* http.Redirect(w, r, url, code) writes the url as the Location header; the
\* receiver reads what precedes the first "?" as the address and the rest as
\* the query.
Location(url) ==
  [url |-> url, uri |-> Text(Before(url, "?")),
   query |-> ParseQuery(After(url, "?"))]

(***************************************************************************)
(* Responses.                                                              *)
(***************************************************************************)
NoCookies == [n \in {} |-> None]
NoLocation == [url |-> <<>>, uri |-> "", query |-> [n \in {} |-> ""]]
NoBody == [kind |-> "none"]

NoHeaders == [n \in {} |-> ""]

Response(status) ==
  [status |-> status, cookies |-> NoCookies, location |-> NoLocation,
   body |-> NoBody, headers |-> NoHeaders]

\* The user agent applies every Set-Cookie of a response: a cleared or
\* deleted cookie is absent afterwards.
ApplyCookies(j, cookies) ==
  [n \in DOMAIN j |-> IF n \in DOMAIN cookies THEN cookies[n] ELSE j[n]]

(***************************************************************************)
(* State.                                                                  *)
(***************************************************************************)
VARIABLES
  now,      \* the server's clock, in seconds
  ticks,    \* how often the clock has advanced
  config,   \* the stored configuration: [public, users, passthrough]
  err,      \* the err variable of NewOIDCHandler, shared by its handlers
  jar,      \* the user agent's cookies
  rp,       \* what the relying party holds: code, tokens
  sent,     \* the cookies of a request that the user agent has sent and
            \* the server has not handled yet
  req,      \* the request being handled (NoRequest between requests)
  resp,     \* the response to it
  flow      \* history: the /auth request behind the jar's auth_request
            \* cookie, and the /approve request that minted last

vars == <<now, ticks, config, err, jar, sent, rp, req, resp, flow>>

Emails == {"alice@example.com", "bob@example.com"}

NoFlow == [auth |-> None, approve |-> None]
NoRequest == [endpoint |-> "none"]

\* No request is on its way.
NoJar == [login_key |-> None, auth_request |-> None, return_uri |-> None,
          upstream_oauth2_request |-> None]
NotSent == [pending |-> FALSE, count |-> 0, cookies |-> NoJar]

\* The configurations: public or not, one user, forward-auth passthrough as
\* given.
Configs(passthroughs) ==
  [public : BOOLEAN, users : {{"alice@example.com"}},
   passthrough : passthroughs]

\* No request is under way at time t; the user agent holds the session
\* cookie loginKey and no other.
StartWith(t, loginKey) ==
  /\ now = t
  /\ ticks = 0
  /\ err = "nil"
  /\ jar = [login_key |-> loginKey, auth_request |-> None,
            return_uri |-> None, upstream_oauth2_request |-> None]
  /\ sent = NotSent
  /\ rp = [code |-> None, access_token |-> None, id_token |-> None,
           redeemed |-> 0]
  /\ req = NoRequest
  /\ resp = Response(0)
  /\ flow = NoFlow

\* Nothing has happened: no cookies, no request.
Start == StartWith(0, None)

\* ForwardAuthPassthrough is off unless the configuration sets it.
Init ==
  /\ config \in Configs({FALSE})
  /\ Start

\* No request is being handled.
Idle == req = NoRequest


(***************************************************************************)
(* What a request can carry in place of the cookie or token the user agent *)
(* or relying party holds: the value itself, nothing, or a value whose     *)
(* signature does not verify.                                              *)
(***************************************************************************)
Tamper(c) == IF c.sig = ServerKey THEN [c EXCEPT !.sig = ForgedKey] ELSE Garbage

\* How a request carries a cookie or token: as it is ("own"), not at all
\* ("none"), or with a signature that does not verify ("tampered").
Carry(c, how) ==
  CASE how = "own" -> c
    [] how = "none" -> None
    [] how = "tampered" -> Tamper(c)

Carries == {"own", "none", "tampered"}

\* The cookie of the given name that a request carries: the user agent's
\* cookie in one of the ways above, or ("sent") the cookie as it was when
\* the request was sent, for a request that has been on its way since.
Carried(name, how) ==
  IF how = "sent" THEN sent.cookies[name] ELSE Carry(jar[name], how)

\* The response to the request goes to the user agent.
Own(how) == how \in {"own", "sent"}

\* The request on its way has been handled.
Handled == [sent EXCEPT !.pending = FALSE, !.cookies = NoJar]

HasCookie(c) == c # None

(***************************************************************************)
(* The clock.  Time passes to the next second, or to the last second at    *)
(* which an envelope somebody holds is still valid, or to its expiry.      *)
(***************************************************************************)
Held ==
  { jar.login_key, jar.auth_request, jar.upstream_oauth2_request,
    rp.code, rp.access_token }

Deadlines == { e.exp : e \in { h \in Held : h.sig = ServerKey } }

Instants ==
  {now + 1} \cup { d \in Deadlines : d > now }
            \cup { d - 1 : d \in { x \in Deadlines : x - 1 > now } }

Tick ==
  /\ Idle
  /\ ticks < MaxTicks
  /\ \E t \in Instants : now' = t
  /\ ticks' = ticks + 1
  /\ UNCHANGED <<sent, config, err, jar, rp, req, resp, flow>>

\* Time passes until the session cookie that the user agent holds expires.
SessionExpires ==
  /\ Idle
  /\ ticks < MaxTicks
  /\ HasCookie(jar.login_key)
  /\ jar.login_key.exp > now
  /\ now' = jar.login_key.exp
  /\ ticks' = ticks + 1
  /\ UNCHANGED <<sent, config, err, jar, rp, req, resp, flow>>

\* The response has been delivered: the request is over.
Return ==
  /\ ~Idle
  /\ req' = NoRequest
  /\ resp' = Response(0)
  /\ UNCHANGED <<sent, now, ticks, config, err, jar, rp, flow>>

\* The user agent sends a request with the cookies it holds; the server
\* handles it later, after other requests.
Send ==
  /\ Idle
  /\ ~sent.pending
  /\ sent.count < MaxSent
  /\ sent' = [pending |-> TRUE, count |-> sent.count + 1, cookies |-> jar]
  /\ UNCHANGED <<now, ticks, config, err, jar, rp, req, resp, flow>>

(***************************************************************************)
(* POST /register                                                          *)
(***************************************************************************)
\* A request body: not JSON at all, or a JSON object with redirect_uris.
RegisterBodies ==
  { [json |-> FALSE, redirect_uris |-> <<>>] }
    \cup { [json |-> TRUE, redirect_uris |-> u] :
             u \in { <<>>, <<"https://rp.example/cb">>, <<"%zz">>, <<"">>,
                     <<"https://a%25bc/cb">>,
                     <<"https://evil.example/cb", "https://rp.example/cb">> } }

TextBody(text) == [kind |-> "text", text |-> text]

RegisterResponse(body) ==
  IF ~body.json THEN Response(400)
  ELSE IF Len(body.redirect_uris) = 0
  THEN [Response(400) EXCEPT !.body = TextBody("Need at least one redirect_uri")]
  ELSE IF ~UrlParseOk(body.redirect_uris[1])
  THEN [Response(400) EXCEPT !.body = TextBody("parse error")]
  ELSE [Response(201) EXCEPT
          !.body = [kind |-> "registration",
                    client_id |-> HttpsUri(UrlHost(body.redirect_uris[1]))]]

Register(bodies) ==
  \E body \in bodies :
    /\ Idle
    /\ req' = [endpoint |-> "/register", now |-> now, body |-> body]
    /\ resp' = RegisterResponse(body)
    \* err = json.NewDecoder(r.Body).Decode(&regReq) assigns the shared err
    /\ err' = IF body.json THEN "nil" ELSE "error"
    /\ UNCHANGED <<sent, now, ticks, config, jar, rp, flow>>


(***************************************************************************)
(* GET /auth                                                               *)
(***************************************************************************)
\* draft-ietf-oauth-security-topics-24 4.1: the hosts must be the same.
SameHostAlways(clientId, redirectUri) == TRUE

SameHost(clientId, redirectUri) == UrlHost(clientId) = UrlHost(redirectUri)

ErrorRedirect(redirectUri, error, state) ==
  [Response(303) EXCEPT
     !.location =
       Location(Chars(redirectUri)
                \o <<Delim("?"), Lit("error"), Delim("="), Lit(error),
                     Delim("&"), Lit("state"), Delim("=")>>
                \o Chars(state))]

AuthErrorResponseTypeFirst(promptParam, responseType) ==
  IF responseType = "" THEN "unsupported_response_type"
  ELSE IF promptParam = "none" THEN "interaction_required"
  ELSE ""

\* The error that ParseAuthRequest redirects with, "" when it goes on: the
\* prompt is looked at before the response type.
AuthError(promptParam, responseType) ==
  IF promptParam = "none" THEN "interaction_required"
  ELSE IF responseType = "" THEN "unsupported_response_type"
  ELSE ""

\* ParseAuthRequest: [ok, resp, ar]; resp is what it has written when it
\* fails.
ParseAuthRequest(form) ==
  LET fail(r) == [ok |-> FALSE, resp |-> r, ar |-> None]
      bad(text) == fail([Response(400) EXCEPT !.body = TextBody(text)])
  IN IF form.client_id = "" THEN bad("client_id missing")
     ELSE IF form.redirect_uri = "" THEN bad("redirect_uri missing")
     ELSE IF ~UrlParseOk(form.client_id)
     THEN bad("client_id is not a valid URI")
     ELSE IF ~UrlParseOk(form.redirect_uri)
     THEN bad("redirect_uri is not a valid URI")
     ELSE IF ~SameHost(form.client_id, form.redirect_uri)
     THEN bad("redirect_uri must be on the same domain as client_id")
     ELSE IF AuthError(form.prompt, form.response_type) # ""
     THEN fail(ErrorRedirect(form.redirect_uri,
                             AuthError(form.prompt, form.response_type),
                             form.state))
     ELSE [ok |-> TRUE, resp |-> Response(200),
           ar |-> [ClientId |-> form.client_id,
                   RedirectUri |-> form.redirect_uri,
                   ResponseType |-> form.response_type,
                   Scope |-> form.scope,
                   State |-> form.state,
                   CodeChallenge |-> form.code_challenge]]

\* The identities and logins of a session cookie: parsed.Get("identities"),
\* parsed.Get("logins").
Identities(tok) ==
  IF HasClaim(tok, "identities") THEN tok.claims["identities"] ELSE <<>>

Logins(tok) ==
  IF HasClaim(tok, "logins") THEN tok.claims["logins"]
  ELSE [c \in {} |-> <<>>]

SortLoginsStored(ls) == ls

\* sort.Slice(previousLogins, Timestamp descending), as an insertion sort.
RECURSIVE InsertLogin(_, _)
InsertLogin(sorted, l) ==
  IF sorted = <<>> THEN <<l>>
  ELSE IF Head(sorted).Timestamp >= l.Timestamp
  THEN <<Head(sorted)>> \o InsertLogin(Tail(sorted), l)
  ELSE <<l>> \o sorted

RECURSIVE SortLogins(_)
SortLogins(ls) ==
  IF ls = <<>> THEN <<>>
  ELSE InsertLogin(SortLogins(SubSeq(ls, 1, Len(ls) - 1)), ls[Len(ls)])

\* The loop of /auth over the identities: those with no previous login of
\* the same Id and ProviderName, in their order.
LoginFound(previousLogins, ident) ==
  \E i \in 1..Len(previousLogins) :
    /\ previousLogins[i].Id = ident.Id
    /\ previousLogins[i].ProviderName = ident.ProviderName

RECURSIVE RemainingIdents(_, _)
RemainingIdents(identities, previousLogins) ==
  IF identities = <<>> THEN <<>>
  ELSE (IF LoginFound(previousLogins, Head(identities)) THEN <<>>
        ELSE <<Head(identities)>>)
         \o RemainingIdents(Tail(identities), previousLogins)

EmptyHash == [empty |-> TRUE]

ReturnUriCookie(uri) == [sig |-> "plain", value |-> uri]

AuthResponse(form, loginKeyCookie, t) ==
  LET par == ParseAuthRequest(form)
      haveCookie == HasCookie(loginKeyCookie)
      hashedLoginKey == IF haveCookie THEN Hash(loginKeyCookie) ELSE EmptyHash
      valid == haveCookie /\ JwtParse(loginKeyCookie, publicJwks, t)
      identities == IF valid THEN Identities(loginKeyCookie) ELSE <<>>
      logins == IF valid THEN Logins(loginKeyCookie) ELSE [c \in {} |-> <<>>]
      previousLogins ==
        IF par.ar.ClientId \in DOMAIN logins
        THEN SortLogins(logins[par.ar.ClientId]) ELSE <<>>
      remainingIdents == RemainingIdents(identities, previousLogins)
      authRequestJwt ==
        JwtSign(t, AuthRequestMaxAge,
                [login_key_hash |-> hashedLoginKey,
                 client_id |-> par.ar.ClientId,
                 redirect_uri |-> par.ar.RedirectUri,
                 state |-> par.ar.State,
                 scope |-> form.scope,
                 nonce |-> form.nonce,
                 pkce_code_challenge |-> form.code_challenge,
                 response_type |-> par.ar.ResponseType])
      returnUri == [path |-> "/auth", query |-> form]
  IN IF ~par.ok THEN par.resp
     ELSE [Response(200) EXCEPT
             !.cookies = [auth_request |-> authRequestJwt,
                          return_uri |-> ReturnUriCookie(returnUri)],
             !.body = [kind |-> "auth.html",
                       Identities |-> identities,
                       RemainingIdentities |-> remainingIdents,
                       PreviousLogins |-> previousLogins]]


\* The /auth requests of the model: a well-formed request of the relying
\* party, varied in every parameter, and the malformed ones.
BaseForm ==
  [client_id |-> "https://rp.example", redirect_uri |-> "https://rp.example/cb",
   scope |-> S_openid \o <<SP>> \o S_email, state |-> "S1", nonce |-> "N1",
   code_challenge |-> "", response_type |-> "code", prompt |-> ""]

AuthForms ==
  { [BaseForm EXCEPT !.scope = s] : s \in Scopes }
    \cup { [BaseForm EXCEPT !.code_challenge = c] : c \in Challenges }
    \cup { [BaseForm EXCEPT !.nonce = "N2", !.state = ""] }
    \cup { [BaseForm EXCEPT !.state = "a&b", !.response_type = rt,
                            !.prompt = pr] :
             rt \in {"code", ""}, pr \in {"", "none"} }
    \cup { [BaseForm EXCEPT !.response_type = rt, !.prompt = pr] :
             rt \in {"code", "none", "token", ""}, pr \in {"", "none"} }
    \cup { [BaseForm EXCEPT !.client_id = c, !.redirect_uri = r] :
             c \in {"", "https://rp.example", "%zz"}, r \in Uris }
    \cup { [BaseForm EXCEPT !.client_id = "https://evil.example"] }

\* Every form with the user agent's own cookie, and the well-formed request
\* with the other ways to carry the cookie.
AuthRequests ==
  { [form |-> f, carry |-> "own"] : f \in AuthForms }
    \cup { [form |-> BaseForm, carry |-> c] : c \in Carries }

\* The well-formed request alone.
BaseAuthRequests == { [form |-> BaseForm, carry |-> "own"] }

NoRp == [code |-> None, access_token |-> None, id_token |-> None,
         redeemed |-> 0]

\* A response changes the user agent's cookies when the request was the
\* user agent's own, carrying its cookies as they are; a request that
\* carries anything else comes from somebody who has not got them.  The
\* relying party that sends the user to /auth drops what it held of the
\* previous authorization.
Auth(requests) ==
  \E q \in requests :
    LET loginKeyCookie == Carry(jar.login_key, q.carry)
        r == AuthResponse(q.form, loginKeyCookie, now)
        own == q.carry = "own"
    IN /\ Idle
       /\ req' = [endpoint |-> "/auth", now |-> now, form |-> q.form,
                  login_key |-> loginKeyCookie]
       /\ resp' = r
       /\ jar' = IF own THEN ApplyCookies(jar, r.cookies) ELSE jar
       /\ flow' = IF own /\ r.status = 200
                  THEN [auth |-> q.form, approve |-> None] ELSE flow
       /\ rp' = IF own /\ r.status = 200 THEN NoRp ELSE rp
       /\ UNCHANGED <<sent, now, ticks, config, err>>

(***************************************************************************)
(* POST /approve                                                           *)
(***************************************************************************)
\* The loop of /approve over the session's identities: the first identity
\* with the given Id, or None.
FindIdentityAny(tokIdents, identId) ==
  IF tokIdents = <<>> THEN None ELSE Head(tokIdents)

RECURSIVE FindIdentity(_, _)
FindIdentity(tokIdents, identId) ==
  IF tokIdents = <<>> THEN None
  ELSE IF Head(tokIdents).Id = identId THEN Head(tokIdents)
  ELSE FindIdentity(Tail(tokIdents), identId)

\* scopePart == "email" for some part of strings.Split(scope, " ").
ScopeRequests(scope, what) ==
  LET scopeParts == StringsSplit(scope, SP)
  IN \E i \in 1..Len(scopeParts) : scopeParts[i] = what

\* addLoginToCookie: the session cookie rewritten with the login appended to
\* the client's history, its timestamp the server's time.
addLoginToCookie(cookieValue, clientId, newLogin, t) ==
  LET logins == Logins(cookieValue)
      old == IF clientId \in DOMAIN logins THEN logins[clientId] ELSE <<>>
      stamped == [IdType |-> newLogin.IdType, Id |-> newLogin.Id,
                  ProviderName |-> newLogin.ProviderName, Timestamp |-> t]
  IN JwtSign(t, SessionTTL,
             [identities |-> Identities(cookieValue),
              logins |-> [c \in DOMAIN logins \cup {clientId} |->
                            IF c = clientId THEN Append(old, stamped)
                            ELSE logins[c]]])

\* getJwtFromCookie: the cookie of the request, parsed and verified.
getJwtFromCookieOk(cookie, t) ==
  HasCookie(cookie) /\ JwtParse(cookie, publicJwks, t)

NoClaims == [n \in {} |-> ""]

\* The subject of the authorization code: idToken.Email().
CodeSubject(idTokenClaims, identity) == TokenEmail(idTokenClaims)

\* The subject of the ID token.
IdTokenSubject(identId, identity) == identId

\* The nonce of the ID token: claimFromToken("nonce", parsedAuthReq).
IdTokenNonceState(parsedAuthReq) == claimFromToken("state", parsedAuthReq)

IdTokenNonce(parsedAuthReq) == claimFromToken("nonce", parsedAuthReq)

\* name is set only when profile is requested and the name is not empty.
NameClaimAlways(profileRequested, identity) == TRUE

NameClaim(profileRequested, identity) ==
  profileRequested /\ identity.Name # ""

\* email and email_verified are set only when email is requested.
EmailClaimAlways(emailRequested) == TRUE

EmailClaim(emailRequested) == emailRequested

clearCookieNot(name) == NoCookies

\* clearCookie(storage, name, w): the Set-Cookie that removes the cookie.
clearCookie(name) == [n \in {name} |-> None]

\* What /approve does: its response, and the ID token and code it has
\* minted (None when it has minted none).
NotApproved(r) == [minted |-> None, resp |-> r]

approveHandler(method, loginKeyCookie, authReqCookie, identId, errVar, t) ==
  IF method # "POST"
  THEN \* io.WriteString(w, err.Error()) with the shared err: a nil err
       \* panics before anything of the response is sent
       IF errVar = "nil"
       THEN NotApproved([Response(0) EXCEPT !.body = [kind |-> "panic"]])
       ELSE NotApproved([Response(405) EXCEPT !.body = TextBody("err")])
  ELSE IF ~HasCookie(loginKeyCookie)
  THEN NotApproved([Response(401) EXCEPT
          !.body = TextBody("Only logged-in users can access this endpoint")])
  ELSE IF ~JwtParse(loginKeyCookie, publicJwks, t)
  THEN NotApproved([Response(401) EXCEPT !.body = TextBody("parse error")])
  ELSE
  LET cleared == clearCookie("auth_request")
  IN
  IF ~getJwtFromCookieOk(authReqCookie, t)
  THEN NotApproved([Response(401) EXCEPT !.cookies = cleared,
                                         !.body = TextBody("parse error")])
  ELSE
  LET parsedAuthReq == authReqCookie
      identity == FindIdentity(Identities(loginKeyCookie), identId)
  IN
  IF identity = None
  THEN NotApproved([Response(403) EXCEPT
          !.cookies = cleared,
          !.body = TextBody("You don't have permissions for this identity")])
  ELSE
  LET clientId == claimFromToken("client_id", parsedAuthReq)
      newLogin == [IdType |-> "email", Id |-> identity.Id,
                   ProviderName |-> identity.ProviderName]
      newLoginCookie == addLoginToCookie(loginKeyCookie, clientId, newLogin, t)
      scope == IF HasClaim(parsedAuthReq, "scope")
               THEN parsedAuthReq.claims["scope"] ELSE S_empty
      emailRequested == ScopeRequests(scope, S_email)
      profileRequested == ScopeRequests(scope, S_profile)
      idTokenClaims ==
        [sub |-> IdTokenSubject(identId, identity),
         aud |-> <<clientId>>,
         iss |-> RootUri,
         nonce |-> IdTokenNonce(parsedAuthReq)]
          @@ (IF EmailClaim(emailRequested)
              THEN [email |-> identity.Email,
                    email_verified |-> identity.EmailVerified]
              ELSE NoClaims)
          @@ (IF NameClaim(profileRequested, identity)
              THEN [name |-> identity.Name] ELSE NoClaims)
      signedIdToken == JwtSign(t, IdTokenTTL, idTokenClaims)
      signedCode ==
        JwtSign(t, CodeTTL,
                [sub |-> CodeSubject(idTokenClaims, identity),
                 id_token |-> signedIdToken,
                 pkce_code_challenge |->
                   claimFromToken("pkce_code_challenge", parsedAuthReq)])
      responseType == claimFromToken("response_type", parsedAuthReq)
      redirectUri == claimFromToken("redirect_uri", parsedAuthReq)
      setCookies == clearCookie("auth_request")
                      @@ [login_key |-> newLoginCookie]
  IN
  [minted |-> [id_token |-> signedIdToken, code |-> signedCode],
   resp |->
     \* https://openid.net/specs/oauth-v2-multiple-response-types-1_0.html#none
     IF responseType = "none"
     THEN [Response(303) EXCEPT
             !.cookies = setCookies,
             !.location = Location(Chars(redirectUri))]
     ELSE [Response(303) EXCEPT
             !.cookies = setCookies,
             !.location =
               Location(
                 Chars(redirectUri)
                 \o <<Delim("?"), Lit("client_id"), Delim("=")>>
                 \o Chars(clientId)
                 \o <<Delim("&"), Lit("redirect_uri"), Delim("=")>>
                 \o Chars(redirectUri)
                 \o <<Delim("&"), Lit("code"), Delim("="), signedCode>>
                 \o <<Delim("&"), Lit("state"), Delim("=")>>
                 \o Chars(claimFromToken("state", parsedAuthReq))
                 \o <<Delim("&"), Lit("scope"), Delim("="), Lit(scope)>>)]]

\* The user approves only while the session holds fewer than MaxLogins
\* logins for each client.
LoginsBelowBound(cookie) ==
  \A c \in DOMAIN Logins(cookie) : Len(Logins(cookie)[c]) < MaxLogins

\* A POST with every way to carry the two cookies and every identity.
ApproveRequest(method, loginKey, authRequest, identId) ==
  [method |-> method, login_key |-> loginKey, auth_request |-> authRequest,
   identity_id |-> identId]

ApproveRequests ==
  { ApproveRequest("POST", l, a, i) :
      l \in Carries, a \in Carries, i \in Emails }

\* The user agent's own POST for each identity, and a request that is no
\* POST.
BaseApproveRequests ==
  { ApproveRequest("POST", "own", "own", i) : i \in Emails }
    \cup { ApproveRequest("GET", "own", "own", "alice@example.com") }

\* The listed user's POST with the session cookie carried in each way.
ClockApproveRequests ==
  { ApproveRequest("POST", c, "own", "alice@example.com") : c \in Carries }

\* The POST for each identity, of the user agent now and as sent before.
ConcurrentApproveRequests ==
  { ApproveRequest("POST", c, c, i) : c \in {"own", "sent"}, i \in Emails }

\* The user agent's own POST for each identity.
PrimaryApproveRequests ==
  { ApproveRequest("POST", "own", "own", i) : i \in Emails }

Approve(requests) ==
  /\ Idle
  /\ LoginsBelowBound(jar.login_key)
  /\ \E q \in requests :
       LET loginKeyCookie == Carried("login_key", q.login_key)
           authReqCookie == Carried("auth_request", q.auth_request)
           out == approveHandler(q.method, loginKeyCookie, authReqCookie,
                                 q.identity_id, err, now)
           own == Own(q.login_key) /\ Own(q.auth_request)
           delivered == "code" \in DOMAIN out.resp.location.query
           late == q.login_key = "sent" \/ q.auth_request = "sent"
       IN /\ late => sent.pending
          /\ req' = [endpoint |-> "/approve", now |-> now,
                     method |-> q.method, login_key |-> loginKeyCookie,
                     auth_request |-> authReqCookie,
                     identity_id |-> q.identity_id,
                     held |-> jar.login_key]
          /\ sent' = IF late THEN Handled ELSE sent
          /\ resp' = out.resp
          /\ jar' = IF own THEN ApplyCookies(jar, out.resp.cookies) ELSE jar
          /\ rp' = IF delivered
                   THEN [code |-> out.resp.location.query.code,
                         access_token |-> None, id_token |-> None,
                         redeemed |-> 0]
                   ELSE rp
          /\ flow' = IF out.minted # None
                     THEN [auth |-> None,
                           approve |-> [identity_id |-> q.identity_id,
                                        login_key |-> loginKeyCookie,
                                        auth |-> flow.auth,
                                        minted |-> out.minted]]
                     ELSE flow
          /\ UNCHANGED <<now, ticks, config, err>>

(***************************************************************************)
(* POST /token                                                             *)
(***************************************************************************)
PkceAcceptsUnchecked(pkceCodeChallenge, pkceCodeVerifier) ==
  pkceCodeVerifier = ""
    \/ GeneratePKCECodeChallenge(pkceCodeVerifier) = pkceCodeChallenge

\* https://datatracker.ietf.org/doc/html/draft-ietf-oauth-security-topics#section-4.8.2
PkceAccepts(pkceCodeChallenge, pkceCodeVerifier) ==
  IF pkceCodeChallenge # ""
  THEN GeneratePKCECodeChallenge(pkceCodeVerifier) = pkceCodeChallenge
  ELSE pkceCodeVerifier = ""

tokenHandler(codeJwt, pkceCodeVerifier, t) ==
  IF ~JwtParse(codeJwt, publicJwks, t)
  THEN [Response(401) EXCEPT !.body = TextBody("parse error")]
  ELSE IF ~HasClaim(codeJwt, "id_token")
  THEN [Response(401) EXCEPT !.body = TextBody("Invalid id_token in code")]
  ELSE IF ~HasClaim(codeJwt, "pkce_code_challenge")
  THEN [Response(401) EXCEPT
          !.body = TextBody("Invalid pkce_code_challenge in code")]
  ELSE IF ~PkceAccepts(codeJwt.claims["pkce_code_challenge"], pkceCodeVerifier)
  THEN [Response(401) EXCEPT !.body = TextBody("Invalid code_verifier")]
  ELSE [Response(200) EXCEPT
          !.body = [kind |-> "token",
                    access_token |->
                      JwtSign(t, AccessTokenTTL, [sub |-> Subject(codeJwt)]),
                    token_type |-> "bearer",
                    expires_in |-> ExpiresIn,
                    id_token |-> codeJwt.claims["id_token"]]]

Token(carries, verifiers) ==
  /\ Idle
  /\ rp.redeemed < MaxRedeem
  /\ \E how \in carries, pkceCodeVerifier \in verifiers :
       LET codeJwt == Carry(rp.code, how)
           r == tokenHandler(codeJwt, pkceCodeVerifier, now)
       IN /\ req' = [endpoint |-> "/token", now |-> now, code |-> codeJwt,
                     code_verifier |-> pkceCodeVerifier]
          /\ resp' = r
          /\ rp' = IF r.status = 200
                   THEN [rp EXCEPT !.access_token = r.body.access_token,
                                   !.id_token = r.body.id_token,
                                   !.redeemed = @ + 1]
                   ELSE rp
          /\ UNCHANGED <<sent, now, ticks, config, err, jar, flow>>

(***************************************************************************)
(* GET /userinfo                                                           *)
(***************************************************************************)
\* The Authorization header: absent, or "Bearer <token>".
NoHeader == [parts |-> 1, token |-> None]
Bearer(tok) == [parts |-> 2, token |-> tok]

userinfoHandler(authHeader, t) ==
  IF authHeader.parts # 2
  THEN [Response(400) EXCEPT
          !.body = TextBody("Invalid Authorization header")]
  ELSE IF ~JwtParse(authHeader.token, publicJwks, t)
  THEN [Response(401) EXCEPT !.body = TextBody("parse error")]
  ELSE [Response(200) EXCEPT
          !.body = [kind |-> "userinfo",
                    sub |-> Subject(authHeader.token),
                    email |-> Subject(authHeader.token)]]

\* No header; the access token, carried in every way; and the other
\* envelopes that the relying party and the user agent hold, as bearer
\* tokens.
UserinfoHeaders ==
  {NoHeader}
    \cup { Bearer(Carry(rp.access_token, c)) : c \in Carries }
    \cup { Bearer(rp.id_token), Bearer(rp.code) }
    \cup { Bearer(jar[n]) :
             n \in {"login_key", "auth_request", "upstream_oauth2_request"} }

Userinfo(headers) ==
  \E authHeader \in headers :
    /\ Idle
    /\ req' = [endpoint |-> "/userinfo", now |-> now,
               authorization |-> authHeader]
    /\ resp' = userinfoHandler(authHeader, now)
    /\ UNCHANGED <<sent, now, ticks, config, err, jar, rp, flow>>

(***************************************************************************)
(* The upstream providers.                                                 *)
(***************************************************************************)
Providers ==
  { [ID |-> "google", Name |-> "Google", OpenIDConnect |-> TRUE],
    [ID |-> "github", Name |-> "GitHub", OpenIDConnect |-> FALSE] }

ProviderIds == { p.ID : p \in Providers } \cup {"unknown"}

\* db.GetOAuth2ProviderByID
ProviderKnown(id) == \E p \in Providers : p.ID = id
GetOAuth2ProviderByID(id) == CHOOSE p \in Providers : p.ID = id

\* oauth2MetaMan.GetKeyset(provider.ID): the provider's published keys.
GetKeyset(id) == {id}

\* The accounts a user can have at an upstream provider.
Accounts ==
  { [email |-> "alice@example.com", name |-> "Alice"],
    [email |-> "bob@example.com", name |-> ""] }

\* genRandomKey(), GeneratePKCECodeVerifier(): the random values of the model.
RandomKeys == {"k1"}
RandomVerifiers == {"v1"}
\* The nonces an upstream ID token may carry.
Nonces == RandomKeys \cup {"k2"}

(***************************************************************************)
(* GET /login-oauth2                                                       *)
(***************************************************************************)
loginOauth2Handler(oauth2ProviderId, pkceCodeVerifier, state, nonce, t) ==
  IF ~ProviderKnown(oauth2ProviderId)
  THEN [Response(500) EXCEPT !.body = TextBody("no such provider")]
  ELSE
  LET provider == GetOAuth2ProviderByID(oauth2ProviderId)
      reqJwt == JwtSign(t, UpstreamRequestMaxAge,
                        [provider_id |-> provider.ID,
                         state |-> state,
                         nonce |-> nonce,
                         pkce_code_verifier |-> pkceCodeVerifier])
  IN [Response(303) EXCEPT
        !.cookies = [upstream_oauth2_request |-> reqJwt],
        !.location =
          [uri |-> provider.ID,
           query |-> [client_id |-> RootUri,
                      redirect_uri |-> "/callback",
                      state |-> state,
                      scope |-> S_openid \o <<SP>> \o S_email \o <<SP>>
                                  \o S_profile,
                      response_type |-> "code",
                      code_challenge_method |-> "S256",
                      code_challenge |->
                        GeneratePKCECodeChallenge(pkceCodeVerifier),
                      nonce |-> nonce,
                      prompt |-> "consent"]]]

LoginOauth2(providerIds) ==
  \E oauth2ProviderId \in providerIds, pkceCodeVerifier \in RandomVerifiers,
     state \in RandomKeys, nonce \in RandomKeys :
    LET r == loginOauth2Handler(oauth2ProviderId, pkceCodeVerifier, state,
                                nonce, now)
    IN /\ Idle
       /\ req' = [endpoint |-> "/login-oauth2", now |-> now,
                  oauth2_provider_id |-> oauth2ProviderId]
       /\ resp' = r
       /\ jar' = ApplyCookies(jar, r.cookies)
       /\ UNCHANGED <<sent, now, ticks, config, err, rp, flow>>

(***************************************************************************)
(* GET /callback                                                           *)
(***************************************************************************)
\* What the upstream provider answers at its token endpoint, and at its
\* profile endpoint (plain OAuth2).  token: "error" (no answer), "status"
\* (not 200), "json" (not JSON), "ok".  A nonce claim of the provider's ID
\* token is a string [str |-> s] or something else [num |-> n].
UpstreamIdToken(key, account, nonce, t) ==
  [sig |-> key, iat |-> t, exp |-> t + UpstreamIdTokenTTL,
   claims |-> [email |-> account.email, name |-> account.name] @@ nonce]

Answer(token, idToken, profileEmail) ==
  [token |-> token, id_token |-> idToken, profile_email |-> profileEmail]

GoogleAnswer(key, account, nonce, t) ==
  Answer("ok", UpstreamIdToken(key, account, nonce, t), "")

Alice == CHOOSE a \in Accounts : a.email = "alice@example.com"

\* The OIDC provider answers for each of its accounts, with the nonce the
\* server sent.
AccountAnswers(t) ==
  { GoogleAnswer("google", a, [nonce |-> [str |-> x]], t) :
      a \in Accounts, x \in RandomKeys }

\* What else a provider may answer: nothing, a status other than 200, a
\* body that is not JSON; an ID token with another nonce, with a bad
\* signature, without a nonce, with a nonce that is no string; a profile
\* with a primary email and one without.
OtherAnswers(t) ==
  { Answer(x, None, "") : x \in {"error", "status", "json"} }
    \cup { GoogleAnswer(k, Alice, [nonce |-> [str |-> x]], t) :
             k \in {"google", ForgedKey}, x \in Nonces }
    \cup { GoogleAnswer("google", Alice, n, t) :
             n \in { [nonce |-> [num |-> 7]], NoClaims } }
    \cup { Answer("ok", None, e) : e \in {"alice@example.com", ""} }

\* r.Form of the provider's redirect back: the code, and the state that
\* /login-oauth2 sent.
CallbackForm(state) == [code |-> "code", state |-> state]

\* The state parameter of a request: the one sent, another, none.
CallbackStates == RandomKeys \cup {"k2", ""}

CallbackRequest(carry, answer, appendFails) ==
  [carry |-> carry, answer |-> answer, append_fails |-> appendFails,
   form |-> CallbackForm("k1")]

\* The requests with each state parameter.
WithStates(requests) ==
  { [q EXCEPT !.form = CallbackForm(s)] : q \in requests, s \in CallbackStates }

\* The user agent's own request with an account's answer.
BaseCallbackRequests(t) ==
  { CallbackRequest("own", a, FALSE) : a \in AccountAnswers(t) }

\* Every answer to the user agent's own request; the other ways to carry
\* the cookie, and a failure to write the session cookie, with one answer.
CallbackRequests(t) ==
  { CallbackRequest("own", a, FALSE) :
      a \in AccountAnswers(t) \cup OtherAnswers(t) }
    \cup { CallbackRequest(c, GoogleAnswer("google", Alice,
                                           [nonce |-> [str |-> "k1"]], t), f) :
             c \in Carries, f \in BOOLEAN }

validUserAny(email, users) == TRUE

\* validUser(email, users)
validUser(email, users) == email \in users

\* fmt.Sprintf("%s/no-account", domainToUri(r.Host))
NoAccountUri == "https://auth.example/no-account"

\* The text of the return URI that /auth stored: the path, "?", and the raw
\* query of the request.
ReturnUriText(returnUri) ==
  <<Lit(returnUri.path), Delim("?"), Lit(returnUri.query)>>

\* getReturnUriCookie
getReturnUriCookieOk(cookie) == HasCookie(cookie) /\ cookie.sig = "plain"

addIdentToCookieFresh(cookieValue, newIdent, t) ==
  JwtSign(t, SessionTTL,
          [identities |-> <<newIdent>>, logins |-> [c \in {} |-> <<>>]])

addIdentToCookieAppending(cookieValue, newIdent, t) ==
  LET valid == HasCookie(cookieValue) /\ JwtParse(cookieValue, publicJwks, t)
  IN JwtSign(t, SessionTTL,
             [identities |->
                Append(IF valid THEN Identities(cookieValue) ELSE <<>>,
                       newIdent),
              logins |-> IF valid THEN Logins(cookieValue)
                         ELSE [c \in {} |-> <<>>]])

\* addIdentToCookie: the identities of a valid current cookie, with the new
\* identity appended unless one with its Id and ProviderName is there
\* already; a fresh envelope when there is no valid cookie.
addIdentToCookie(cookieValue, newIdent, t) ==
  LET valid == HasCookie(cookieValue) /\ JwtParse(cookieValue, publicJwks, t)
      idents == IF valid THEN Identities(cookieValue) ELSE <<>>
      logins == IF valid THEN Logins(cookieValue) ELSE [c \in {} |-> <<>>]
      present == \E i \in 1..Len(idents) :
                   /\ idents[i].Id = newIdent.Id
                   /\ idents[i].ProviderName = newIdent.ProviderName
  IN JwtSign(t, SessionTTL,
             [identities |-> IF present THEN idents
                             ELSE Append(idents, newIdent),
              logins |-> logins])

\* The nonce check of /callback on a verified upstream ID token: 0 when it
\* passes, else the status of the error response.
NonceCheckLax(providerOidcToken, parsedUpstreamAuthReq) ==
  IF ~HasClaim(providerOidcToken, "nonce") THEN 400
  ELSE IF "str" \notin DOMAIN providerOidcToken.claims["nonce"] THEN 400
  ELSE 0

NonceCheck(providerOidcToken, parsedUpstreamAuthReq) ==
  IF ~HasClaim(providerOidcToken, "nonce") THEN 400
  ELSE IF "str" \notin DOMAIN providerOidcToken.claims["nonce"] THEN 400
  ELSE IF claimFromToken("nonce", parsedUpstreamAuthReq)
            # providerOidcToken.claims["nonce"].str THEN 403
  ELSE 0

callbackHandlerStateChecked(form, upstreamAuthReqCookie, loginKeyCookie, returnUriCookie, answer, appendFails, conf, t) ==
  IF ~HasCookie(upstreamAuthReqCookie)
  THEN [Response(500) EXCEPT !.body = TextBody("no cookie")]
  ELSE IF ~JwtParse(upstreamAuthReqCookie, publicJwks, t)
  THEN [Response(500) EXCEPT !.body = TextBody("parse error")]
  ELSE IF form.state # claimFromToken("state", upstreamAuthReqCookie)
  THEN Response(403)
  ELSE Response(500)

callbackHandler(form, upstreamAuthReqCookie, loginKeyCookie, returnUriCookie, answer, appendFails, conf, t) ==
  IF ~HasCookie(upstreamAuthReqCookie)
  THEN [Response(500) EXCEPT !.body = TextBody("no cookie")]
  ELSE IF ~JwtParse(upstreamAuthReqCookie, publicJwks, t)
  THEN [Response(500) EXCEPT !.body = TextBody("parse error")]
  ELSE
  LET parsedUpstreamAuthReq == upstreamAuthReqCookie
      providerId == claimFromToken("provider_id", parsedUpstreamAuthReq)
  IN
  IF ~ProviderKnown(providerId)
  THEN [Response(500) EXCEPT !.body = TextBody("no such provider")]
  ELSE IF answer.token # "ok" THEN Response(500)
  ELSE
  LET oauth2Provider == GetOAuth2ProviderByID(providerId)
      oidc == oauth2Provider.OpenIDConnect
      idTokenOk == JwtParse(answer.id_token, GetKeyset(oauth2Provider.ID), t)
      nonceStatus == NonceCheck(answer.id_token, parsedUpstreamAuthReq)
      email == IF oidc THEN TokenEmail(answer.id_token.claims)
               ELSE answer.profile_email
      name == IF oidc /\ HasClaim(answer.id_token, "name")
              THEN answer.id_token.claims["name"] ELSE ""
      newIdent == [IdType |-> "email", Id |-> email,
                   ProviderName |-> oauth2Provider.Name, Name |-> name,
                   Email |-> email, EmailVerified |-> TRUE]
  IN
  IF oidc /\ ~idTokenOk THEN Response(500)
  ELSE IF oidc /\ nonceStatus # 0 THEN Response(nonceStatus)
  ELSE IF ~getReturnUriCookieOk(returnUriCookie) THEN Response(500)
  ELSE IF ~conf.public /\ ~validUser(email, conf.users)
  THEN [Response(303) EXCEPT
          !.location =
            Location(<<Lit(NoAccountUri), Delim("?")>>
                     \o ReturnUriText(returnUriCookie.value))]
  ELSE IF appendFails
  THEN \* deleteReturnUriCookie has already set its header
       [Response(500) EXCEPT !.cookies = [return_uri |-> None]]
  ELSE [Response(303) EXCEPT
          !.cookies = [return_uri |-> None,
                       login_key |->
                         addIdentToCookie(loginKeyCookie, newIdent, t),
                       upstream_oauth2_request |-> None],
          !.location = Location(ReturnUriText(returnUriCookie.value))]

Callback(requests) ==
  \E q \in requests :
    LET upstreamAuthReqCookie == Carried("upstream_oauth2_request", q.carry)
        theirs == IF q.carry = "sent" THEN "sent" ELSE "own"
        loginKeyCookie == Carried("login_key", theirs)
        returnUriCookie == Carried("return_uri", theirs)
        r == callbackHandler(q.form, upstreamAuthReqCookie, loginKeyCookie,
                             returnUriCookie, q.answer, q.append_fails,
                             config, now)
        own == Own(q.carry)
    IN /\ Idle
       /\ q.carry = "sent" => sent.pending
       /\ "login_key" \in DOMAIN r.cookies
            => Len(Identities(r.cookies["login_key"])) <= MaxIdentities
       /\ req' = [endpoint |-> "/callback", now |-> now, form |-> q.form,
                  upstream_oauth2_request |-> upstreamAuthReqCookie,
                  login_key |-> loginKeyCookie,
                  return_uri |-> returnUriCookie,
                  answer |-> q.answer, append_fails |-> q.append_fails,
                  held |-> jar.login_key]
       /\ resp' = r
       /\ jar' = IF own THEN ApplyCookies(jar, r.cookies) ELSE jar
       /\ sent' = IF q.carry = "sent" THEN Handled ELSE sent
       /\ UNCHANGED <<now, ticks, config, err, rp, flow>>

(***************************************************************************)
(* GET /callback as the handler runs it: up to httpClient.Do, which waits  *)
(* for the provider, and on from its return.                               *)
(***************************************************************************)
\* The provider has not answered; the handler has not responded.
NoAnswer == Answer("pending", None, "")
Pending == [Response(0) EXCEPT !.body = [kind |-> "pending"]]

\* The handler gets as far as httpClient.Do(upstreamReq): the cookie parses
\* and names a provider.
ReachesExchange(upstreamAuthReqCookie, t) ==
  /\ HasCookie(upstreamAuthReqCookie)
  /\ JwtParse(upstreamAuthReqCookie, publicJwks, t)
  /\ ProviderKnown(claimFromToken("provider_id", upstreamAuthReqCookie))

\* The request arrives: the handler responds with an error at once, or
\* calls httpClient.Do and waits.
CallbackExchange(carries) ==
  \E carry \in carries :
    LET upstreamAuthReqCookie == Carried("upstream_oauth2_request", carry)
        early == callbackHandler(CallbackForm("k1"), upstreamAuthReqCookie,
                                 jar.login_key, jar.return_uri, NoAnswer,
                                 FALSE, config, now)
    IN /\ Idle
       /\ req' = [endpoint |-> "/callback", now |-> now,
                  form |-> CallbackForm("k1"),
                  upstream_oauth2_request |-> upstreamAuthReqCookie,
                  login_key |-> jar.login_key,
                  return_uri |-> jar.return_uri,
                  answer |-> NoAnswer, append_fails |-> FALSE,
                  held |-> jar.login_key]
       /\ resp' = IF ReachesExchange(upstreamAuthReqCookie, now)
                  THEN Pending ELSE early
       /\ UNCHANGED <<sent, now, ticks, config, err, jar, rp, flow>>

\* The response that the handler gives to the pending request once the
\* provider has answered.
callbackContinues(answer) ==
  callbackHandler(req.form, req.upstream_oauth2_request, req.login_key,
                  req.return_uri, answer, req.append_fails, config, req.now)

\* The provider answers, at its token endpoint and its profile endpoint:
\* httpClient.Do returns.  &http.Client{} has no Timeout and the request no
\* context with a deadline, so nothing else makes it return.
HttpClientDo(answers) ==
  /\ req.endpoint = "/callback"
  /\ resp = Pending
  /\ req.answer = NoAnswer
  /\ \E a \in answers :
       /\ "login_key" \in DOMAIN callbackContinues(a).cookies
            => Len(Identities(callbackContinues(a).cookies["login_key"]))
                 <= MaxIdentities
       /\ req' = [req EXCEPT !.answer = a]
  /\ UNCHANGED <<sent, now, ticks, config, err, jar, rp, resp, flow>>

\* The handler goes on from the answer to its response.
CallbackRespond ==
  /\ req.endpoint = "/callback"
  /\ resp = Pending
  /\ req.answer # NoAnswer
  /\ resp' = callbackContinues(req.answer)
  /\ jar' = ApplyCookies(jar, callbackContinues(req.answer).cookies)
  /\ UNCHANGED <<sent, now, ticks, config, err, rp, req, flow>>

\* A response is delivered; a pending request stays.
Deliver ==
  /\ resp # Pending
  /\ Return

(***************************************************************************)
(* POST /complete-login-fedcm, mounted when FedCm is enabled.              *)
(***************************************************************************)
\* The issuers an assertion may name: an identity provider, a site that
\* anybody can run, and one whose metadata cannot be fetched.
FedcmIssuers ==
  {"https://idp.example", "https://evil.example", "https://down.example"}

\* GetOidcConfiguration(issuer) succeeds.
GetOidcConfigurationOk(issuer) == issuer # "https://down.example"

\* c.Register(oidcMeta.JwksUri), c.Refresh(ctx, oidcMeta.JwksUri): the keys
\* that the issuer publishes.
JwksOf(issuer) == {issuer}

\* An assertion signed with a key, naming an issuer and an email.
FedcmToken(key, issuer, email, t) ==
  [sig |-> key, iss |-> issuer, iat |-> t, exp |-> t + UpstreamIdTokenTTL,
   claims |-> [email |-> email]]

\* jwt.ParseInsecure(fedCmToken): the token is a JWT, whoever signed it.
JwtParseInsecure(tok) == "iss" \in DOMAIN tok

\* w.Header().Add("Set-Login", "logged-in")
SetLogin == [n \in {"Set-Login"} |-> "logged-in"]

\* addIdentityToCookie(storage, providerName, id, email, cookieValue,
\* emailVerified)
addIdentityToCookie(providerName, id, email, cookieValue, emailVerified, t) ==
  addIdentToCookie(cookieValue,
                   [IdType |-> "email", Id |-> id,
                    ProviderName |-> providerName, Name |-> "",
                    Email |-> email, EmailVerified |-> emailVerified], t)

completeLoginFedcmHandler(method, fedCmToken, loginKeyCookie, returnUriCookie, appendFails, t) ==
  IF method # "POST"
  THEN [Response(405) EXCEPT !.body = TextBody("Invalid method")]
  ELSE IF ~JwtParseInsecure(fedCmToken) THEN Response(500)
  ELSE
  LET issuer == fedCmToken.iss
  IN
  IF ~GetOidcConfigurationOk(issuer) THEN Response(500)
  ELSE IF ~JwtParse(fedCmToken, JwksOf(issuer), t) THEN Response(500)
  ELSE
  LET email == TokenEmail(fedCmToken.claims)
      cookie == addIdentityToCookie(issuer, email, email, loginKeyCookie,
                                    TRUE, t)
  IN
  IF appendFails THEN Response(500)
  ELSE IF ~getReturnUriCookieOk(returnUriCookie) THEN Response(500)
  ELSE [Response(303) EXCEPT
          !.cookies = [return_uri |-> None, login_key |-> cookie],
          !.headers = SetLogin,
          !.location = Location(ReturnUriText(returnUriCookie.value))]

\* The requests: each method; no JWT, an assertion of each issuer for each
\* email, one with a signature that is not the issuer's, one that has
\* expired; and a failure to build the session cookie.
FedcmTokens(t) ==
  { Garbage }
    \cup { FedcmToken(i, i, e, t) : i \in FedcmIssuers, e \in Emails }
    \cup { FedcmToken(ForgedKey, "https://idp.example", "alice@example.com", t),
           FedcmToken("https://idp.example", "https://idp.example",
                      "alice@example.com", t - UpstreamIdTokenTTL) }

\* OAuth2Provider.URI of a configured provider.
ProviderUri(id) ==
  CASE id = "google" -> "https://accounts.google.com"
    [] id = "github" -> "https://github.com"

\* A POST with an assertion that its issuer has signed: the issuer a
\* configured provider, or a site that anybody can run.
FedcmSignedRequests(t) ==
  { [method |-> "POST", token |-> FedcmToken(i, i, e, t),
     append_fails |-> FALSE] :
      i \in {ProviderUri("google"), "https://evil.example"}, e \in Emails }

FedcmRequests(t) ==
  [method : {"POST", "GET"}, token : FedcmTokens(t), append_fails : BOOLEAN]

CompleteLoginFedcm(requests) ==
  \E q \in requests :
    LET loginKeyCookie == jar.login_key
        returnUriCookie == jar.return_uri
        r == completeLoginFedcmHandler(q.method, q.token, loginKeyCookie,
                                       returnUriCookie, q.append_fails, now)
    IN /\ Idle
       /\ "login_key" \in DOMAIN r.cookies
            => Len(Identities(r.cookies["login_key"])) <= MaxIdentities
       /\ req' = [endpoint |-> "/complete-login-fedcm", now |-> now,
                  method |-> q.method, token |-> q.token,
                  login_key |-> loginKeyCookie,
                  return_uri |-> returnUriCookie,
                  append_fails |-> q.append_fails, held |-> jar.login_key]
       /\ resp' = r
       /\ jar' = ApplyCookies(jar, r.cookies)
       /\ UNCHANGED <<sent, now, ticks, config, err, rp, flow>>

(***************************************************************************)
(* Server.Validate: forward auth.                                          *)
(***************************************************************************)
NilValidation == [nil |-> TRUE]

checkErrPassthroughStrict(e, passthrough) ==
  [validation |-> NilValidation, err |-> e, panic |-> FALSE]

\* checkErrPassthrough(err, passthrough)
checkErrPassthrough(e, passthrough) ==
  IF passthrough
  THEN [validation |-> NilValidation, err |-> "nil", panic |-> FALSE]
  ELSE [validation |-> NilValidation, err |-> e, panic |-> FALSE]

\* validate(storage, r): [validation, err, panic].  A token that jwt.Parse
\* accepts has its identities, if any, decoded as a list of identities
\* (jwt.RegisterCustomField), so the type assertion holds; tokIdents[0] of
\* an empty list panics.
validate(loginKeyCookie, passthrough, t) ==
  IF ~HasCookie(loginKeyCookie)
  THEN checkErrPassthrough("http: named cookie not present", passthrough)
  ELSE IF ~JwtParse(loginKeyCookie, publicJwks, t)
  THEN checkErrPassthrough("jwt.Parse", passthrough)
  ELSE IF ~HasClaim(loginKeyCookie, "identities")
  THEN checkErrPassthrough("No identities", passthrough)
  ELSE IF Len(Identities(loginKeyCookie)) = 0
  THEN [validation |-> NilValidation, err |-> "nil", panic |-> TRUE]
  ELSE LET ident == Identities(loginKeyCookie)[1]
       IN [validation |-> [IdType |-> ident.IdType, Id |-> ident.Id],
           err |-> "nil", panic |-> FALSE]

\* A call of Validate for a request that carries the session cookie in one
\* of the ways, or another envelope of the server in its place.
Validate(carries) ==
  /\ Idle
  /\ \E c \in { Carry(jar.login_key, how) : how \in carries }
               \cup { jar.upstream_oauth2_request } :
       /\ req' = [endpoint |-> "Validate", now |-> now, login_key |-> c]
       /\ resp' = [Response(0) EXCEPT
                     !.body = validate(c, config.passthrough, now)]
  /\ UNCHANGED <<sent, now, ticks, config, err, jar, rp, flow>>

(***************************************************************************)
(* The specification.                                                      *)
(***************************************************************************)
\* The relying party's flow with every request varied, at one instant.
Next ==
  \/ Return
  \/ LoginOauth2({"google"})
  \/ Callback(BaseCallbackRequests(now))
  \/ Auth(AuthRequests)
  \/ Approve(ApproveRequests)
  \/ Token(Carries, Verifiers)
  \/ Userinfo(UserinfoHeaders)

Spec == Init /\ [][Next]_vars

\* The upstream login with every answer varied, and registration, at one
\* instant.
NextLogin ==
  \/ Return
  \/ Register(RegisterBodies)
  \/ LoginOauth2(ProviderIds)
  \/ Callback(WithStates(CallbackRequests(now)))
  \/ Auth(BaseAuthRequests)
  \/ Approve(BaseApproveRequests)

SpecLogin == Init /\ [][NextLogin]_vars

\* The flow of the well-formed requests of a listed user as time passes.
NextClock ==
  \/ Tick
  \/ Return
  \/ LoginOauth2({"google"})
  \/ Callback({ CallbackRequest("own", GoogleAnswer("google", Alice,
                                  [nonce |-> [str |-> "k1"]], now), FALSE) })
  \/ Auth(BaseAuthRequests)
  \/ Approve(ClockApproveRequests)
  \/ Token({"own"}, {""})
  \/ Userinfo({ Bearer(rp.access_token), Bearer(rp.id_token) })

\* The server with a list of users.
InitClock ==
  /\ Init
  /\ ~config.public

SpecClock == InitClock /\ [][NextClock]_vars

\* Two requests at a time: the upstream login and the approval, each also
\* as a request that was sent before the requests handled since.
NextConcurrent ==
  \/ Return
  \/ Send
  \/ LoginOauth2({"google"})
  \/ Callback({ CallbackRequest(c, a, FALSE) :
                  c \in {"own", "sent"}, a \in AccountAnswers(now) })
  \/ Auth(BaseAuthRequests)
  \/ Approve(ConcurrentApproveRequests)

SpecConcurrent == Init /\ [][NextConcurrent]_vars

\* Forward auth: the upstream login and Validate, with the clock, for the
\* server with and without passthrough.
NextForwardAuth ==
  \/ Tick
  \/ Return
  \/ LoginOauth2({"google"})
  \/ Callback({ CallbackRequest("own", GoogleAnswer("google", Alice,
                                  [nonce |-> [str |-> "k1"]], now), FALSE) })
  \/ Auth(BaseAuthRequests)
  \/ Validate(Carries)

InitForwardAuth ==
  /\ config \in Configs(BOOLEAN)
  /\ Start

SpecForwardAuth == InitForwardAuth /\ [][NextForwardAuth]_vars

\* The upstream login with the provider's answer as a step of its own.  The
\* handler's goroutine runs on whenever it can; nothing obliges the provider
\* to answer.
NextUpstream ==
  \/ Deliver
  \/ LoginOauth2({"google", "github"})
  \/ Auth(BaseAuthRequests)
  \/ CallbackExchange({"own", "none"})
  \/ HttpClientDo(AccountAnswers(now) \cup OtherAnswers(now))
  \/ CallbackRespond

SpecUpstream == Init /\ [][NextUpstream]_vars /\ WF_vars(CallbackRespond)

\* The session as it grows: logins of two accounts and approvals, and
\* Validate on the session cookie, as time passes.
NextPrimary ==
  \/ SessionExpires
  \/ Return
  \/ LoginOauth2({"google"})
  \/ Callback(BaseCallbackRequests(now))
  \/ Auth(BaseAuthRequests)
  \/ Approve(PrimaryApproveRequests)
  \/ Validate({"own"})

SpecPrimary == Init /\ [][NextPrimary]_vars

\* Logging in with an assertion, and approving: a server with FedCm
\* enabled.
NextFedcmApprove ==
  \/ Return
  \/ LoginOauth2({"google"})
  \/ Callback(BaseCallbackRequests(now))
  \/ Auth(BaseAuthRequests)
  \/ CompleteLoginFedcm(FedcmSignedRequests(now))
  \/ Approve(BaseApproveRequests)

SpecFedcmApprove == Init /\ [][NextFedcmApprove]_vars

\* The two ways to log in of a server with FedCm enabled.
NextFedcm ==
  \/ Return
  \/ LoginOauth2({"google"})
  \/ Callback(BaseCallbackRequests(now))
  \/ Auth(BaseAuthRequests)
  \/ CompleteLoginFedcm(FedcmRequests(now))

SpecFedcm == Init /\ [][NextFedcm]_vars

\* The session cookies that logins and approvals leave: up to
\* MaxSessionIdentities distinct identities, and for each client up to
\* MaxSessionLogins logins of these identities, appended as time passed.
MaxSessionIdentities == 2
MaxSessionLogins == 2

\* The instants of the logins, and the instant of the session cookie.
SessionEnd == MaxSessionLogins - 1

SessionIdentity(account, provider) ==
  [IdType |-> "email", Id |-> account.email, ProviderName |-> provider.Name,
   Name |-> account.name, Email |-> account.email, EmailVerified |-> TRUE]

\* Alice at both providers, Bob at one.
SessionIdentityPool ==
  { SessionIdentity(a, p) : a \in Accounts, p \in Providers }
    \ { SessionIdentity(a, p) :
          a \in { x \in Accounts : x # Alice },
          p \in { x \in Providers : ~x.OpenIDConnect } }

SessionIdentities ==
  { s \in UNION { [1..n -> SessionIdentityPool] :
                    n \in 0..MaxSessionIdentities } :
      \A i, j \in 1..Len(s) : s[i] = s[j] => i = j }

SessionLogin(ident, t) ==
  [IdType |-> ident.IdType, Id |-> ident.Id,
   ProviderName |-> ident.ProviderName, Timestamp |-> t]

SessionLogins(identities) ==
  { s \in UNION { [1..n -> { SessionLogin(identities[i], t) :
                               i \in 1..Len(identities),
                               t \in 0..SessionEnd }] :
                    n \in 0..MaxSessionLogins } :
      \A k \in 1..(Len(s) - 1) : s[k].Timestamp <= s[k + 1].Timestamp }

SessionCookie(identities, ls) ==
  JwtSign(SessionEnd, SessionTTL,
          [identities |-> identities,
           logins |-> IF ls = <<>> THEN [c \in {} |-> <<>>]
                      ELSE [c \in {"https://rp.example"} |-> ls]])

SessionCookies ==
  UNION { { SessionCookie(identities, ls) : ls \in SessionLogins(identities) } :
            identities \in SessionIdentities }

\* The instants of a request: when the session cookie was issued, its last
\* second, and its expiry.
SessionInstants ==
  {SessionEnd, SessionEnd + SessionTTL - 1, SessionEnd + SessionTTL}

\* /auth on each session, for two clients, at each of these instants.
SessionAuthRequests ==
  { [form |-> f, carry |-> c] :
      f \in { BaseForm,
              [BaseForm EXCEPT !.client_id = "https://evil.example",
                               !.redirect_uri = "https://evil.example/cb"] },
      c \in Carries }

NextSession ==
  \/ Return
  \/ Auth(SessionAuthRequests)

InitSession ==
  /\ config \in Configs({FALSE})
  /\ \E t \in SessionInstants, loginKey \in SessionCookies :
       StartWith(t, loginKey)

SpecSession == InitSession /\ [][NextSession]_vars

(***************************************************************************)
(* The properties.  A state with req # NoRequest shows one request, its     *)
(* response, and the cookies and tokens as the response has left them.      *)
(***************************************************************************)
\* An envelope of the server's that instant t finds in force: signed with
\* the server's key, issued at or before t, expiring after t.
InForce(tok, t) == tok.sig = ServerKey /\ tok.iat <= t /\ t < tok.exp

\* The same, with the instant of expiry counted in.
InForceInclusive(tok, t) == tok.sig = ServerKey /\ tok.iat <= t /\ t <= tok.exp

\* The response hands an authorization code to the relying party.
CodeIssued(r) == "code" \in DOMAIN r.location.query

\* The response of /token carries tokens.
IssuesTokens(r) ==
  /\ r.status = 200
  /\ r.body.kind = "token"
  /\ r.body.access_token.sig = ServerKey
  /\ r.body.id_token.sig = ServerKey

\* The ids of the identities a session cookie contains.
OwnedIds(cookie) ==
  { Identities(cookie)[i].Id : i \in 1..Len(Identities(cookie)) }

\* The PKCE condition: S256(verifier) equals a non-empty challenge, or
\* there is neither a challenge nor a verifier.
PkceHolds(challenge, verifier) ==
  \/ challenge # "" /\ GeneratePKCECodeChallenge(verifier) = challenge
  \/ challenge = "" /\ verifier = ""

\* C1: for every authorization code in force, POST /token issues tokens if
\* and only if the PKCE condition holds between the code's
\* pkce_code_challenge, which is the code_challenge of the originating /auth
\* request, and the code_verifier; otherwise it answers 401 without tokens.
C1_PkceGate ==
  (req.endpoint = "/token" /\ InForce(req.code, req.now)) =>
    LET challenge == req.code.claims.pkce_code_challenge
    IN /\ challenge = flow.approve.auth.code_challenge
       /\ IF PkceHolds(challenge, req.code_verifier)
          THEN IssuesTokens(resp)
          ELSE resp.status = 401 /\ resp.body.kind = "text"

\* A code with a challenge is redeemed with the verifier that hashes to it.
C1_Witness ==
  /\ req.endpoint = "/token"
  /\ InForce(req.code, req.now)
  /\ req.code.claims.pkce_code_challenge = "sha256-v1"
  /\ req.code_verifier = "v1"
  /\ IssuesTokens(resp)

\* C2: POST /approve issues a code only for an identity of the session
\* cookie the request presents: with another identity_id it issues none,
\* and answers 403 once the two cookies have been accepted; the sub of every
\* ID token issued is the id of an identity of the session cookie of the
\* request that approved it.
C2_ApproveOwnedIdentity ==
  /\ (/\ req.endpoint = "/approve"
      /\ req.method = "POST"
      /\ req.identity_id \notin OwnedIds(req.login_key))
       => /\ ~CodeIssued(resp)
          /\ resp.status \in {401, 403}
          /\ (/\ InForce(req.login_key, req.now)
              /\ InForce(req.auth_request, req.now)) => resp.status = 403
  /\ (req.endpoint = "/approve" /\ resp.status = 303)
       => /\ flow.approve.login_key = req.login_key
          /\ Subject(flow.approve.minted.id_token) = req.identity_id
          /\ req.identity_id \in OwnedIds(req.login_key)
  /\ rp.id_token # None
       => Subject(rp.id_token) \in OwnedIds(flow.approve.login_key)

\* A logged-in user asks for an identity the session does not hold.
C2_Witness ==
  /\ req.endpoint = "/approve"
  /\ req.method = "POST"
  /\ InForce(req.login_key, req.now)
  /\ InForce(req.auth_request, req.now)
  /\ OwnedIds(req.login_key) = {"alice@example.com"}
  /\ req.identity_id = "bob@example.com"
  /\ resp.status = 403

\* C3: POST /approve without a session cookie, or with one whose signature
\* is invalid or which has expired, answers 401, issues no code and sets no
\* cookie: the session cookie is not rewritten, the auth_request cookie is
\* not cleared.
C3_ApproveNeedsSession ==
  (/\ req.endpoint = "/approve"
   /\ req.method = "POST"
   /\ ~InForce(req.login_key, req.now))
    => /\ resp.status = 401
       /\ ~CodeIssued(resp)
       /\ resp.cookies = NoCookies

\* The request presents a session cookie of the server's that has expired.
C3_Witness ==
  /\ req.endpoint = "/approve"
  /\ req.method = "POST"
  /\ req.login_key.sig = ServerKey
  /\ req.now >= req.login_key.exp
  /\ resp.status = 401

\* C4: an /auth request in which the host of client_id differs from the
\* host of redirect_uri is answered 400 and sets no cookie, neither
\* auth_request nor return_uri.
C4_AuthHostMismatch ==
  (/\ req.endpoint = "/auth"
   /\ UrlHost(req.form.client_id) # UrlHost(req.form.redirect_uri))
    => /\ resp.status = 400
       /\ resp.cookies = NoCookies

\* The client is on one host and asks for a redirect to another.
C4_Witness ==
  /\ req.endpoint = "/auth"
  /\ UrlHost(req.form.client_id) = "rp.example"
  /\ UrlHost(req.form.redirect_uri) = "evil.example"
  /\ resp.status = 400

\* The upstream ID token of a /callback request has passed every check
\* before the nonce check: the UpstreamRequest cookie is in force and names
\* an OIDC provider, the token exchange succeeded, and the ID token verifies
\* against the provider's keys.
ReachesNonceCheck ==
  /\ req.endpoint = "/callback"
  /\ InForce(req.upstream_oauth2_request, req.now)
  /\ \E p \in Providers :
       /\ p.ID = req.upstream_oauth2_request.claims.provider_id
       /\ p.OpenIDConnect
       /\ req.answer.id_token.sig \in GetKeyset(p.ID)
  /\ req.answer.token = "ok"

\* C5: in an OIDC upstream flow in which the nonce of the provider's ID
\* token differs from the nonce stored in the UpstreamRequest envelope,
\* /callback answers 403 and sets no cookie: the session cookie, the
\* upstream_oauth2_request cookie and the return_uri cookie are as they
\* were, and no identity is appended.
C5_CallbackNonceMismatch ==
  (/\ ReachesNonceCheck
   /\ HasClaim(req.answer.id_token, "nonce")
   /\ "str" \in DOMAIN req.answer.id_token.claims.nonce
   /\ req.answer.id_token.claims.nonce.str
        # req.upstream_oauth2_request.claims.nonce)
    => /\ resp.status = 403
       /\ resp.cookies = NoCookies
       /\ jar.login_key = req.login_key
       /\ jar.return_uri = req.return_uri
       /\ jar.upstream_oauth2_request = req.upstream_oauth2_request

\* The provider's ID token carries another nonce than the one sent.
C5_Witness ==
  /\ ReachesNonceCheck
  /\ req.upstream_oauth2_request.claims.nonce = "k1"
  /\ req.answer.id_token.claims = [email |-> "alice@example.com",
                                   name |-> "Alice",
                                   nonce |-> [str |-> "k2"]]
  /\ resp.status = 403

\* C6: end to end, when /auth(client_id, nonce N, scope, code_challenge),
\* /approve(identity_id I) and /token with the right verifier follow each
\* other, the id_token of the /token response is the signed ID token that
\* /approve minted, and its sub is I, its aud is [client_id], its nonce is N.
C6_EndToEnd ==
  (req.endpoint = "/token" /\ resp.status = 200) =>
    LET idToken == resp.body.id_token
        auth == flow.approve.auth
    IN /\ req.code = flow.approve.minted.code
       /\ PkceHolds(auth.code_challenge, req.code_verifier)
       /\ idToken = flow.approve.minted.id_token
       /\ idToken.sig = ServerKey
       /\ idToken.claims.sub = flow.approve.identity_id
       /\ idToken.claims.aud = <<auth.client_id>>
       /\ idToken.claims.nonce = auth.nonce

\* The flow has run for the second identity, another nonce and a challenge.
C6_Witness ==
  /\ req.endpoint = "/token"
  /\ resp.status = 200
  /\ flow.approve.identity_id = "bob@example.com"
  /\ resp.body.id_token.claims.nonce = "N2"

\* What /token answers to the code that /approve minted, when Accepts says
\* at which instants the code is in force: the code lives CodeTTL seconds;
\* while it is in force every redemption succeeds and returns the ID token
\* minted with it, whatever was redeemed before; when it is not, 401.
CodeReplay(Accepts(_, _)) ==
  (/\ req.endpoint = "/token"
   /\ req.code.sig = ServerKey
   /\ req.code = flow.approve.minted.code)
    => /\ req.code.exp = req.code.iat + CodeTTL
       /\ IF Accepts(req.code, req.now)
          THEN /\ resp.status = 200
               /\ resp.body.id_token = flow.approve.minted.id_token
          ELSE resp.status = 401

\* C7, as amended: /token keeps no record of redeemed codes, so a valid code
\* can be redeemed again and again while now < iat + 16 s, each redemption
\* returning the same id_token, and every redemption at or after iat + 16 s
\* is answered 401.
C7_CodeReplay == CodeReplay(InForce)

\* C7, as stated: the code can be redeemed while now <= iat + 16 s, and
\* every redemption after iat + 16 s is answered 401.
C7_CodeReplayInclusive == CodeReplay(InForceInclusive)

\* The code is redeemed a second time, later than it was issued.
C7_Witness ==
  /\ req.endpoint = "/token"
  /\ resp.status = 200
  /\ rp.redeemed = 2
  /\ req.now > req.code.iat

\* What the endpoints answer to the envelopes they read, when Accepts says
\* at which instants an envelope is in force.  /approve refuses a session
\* cookie with 401 and sets no cookie, and refuses an AuthRequest with 401;
\* /callback refuses an UpstreamRequest with 500; /token and /userinfo
\* refuse a code and an access token with 401.
EnvelopeLifetime(Accepts(_, _)) ==
  /\ (/\ req.endpoint = "/approve"
      /\ req.method = "POST"
      /\ req.login_key.sig = ServerKey)
       => ((resp.status = 401 /\ resp.cookies = NoCookies)
             <=> ~Accepts(req.login_key, req.now))
  /\ (/\ req.endpoint = "/approve"
      /\ req.method = "POST"
      /\ Accepts(req.login_key, req.now)
      /\ req.auth_request.sig = ServerKey)
       => /\ req.auth_request.exp = req.auth_request.iat + AuthRequestMaxAge
          /\ resp.status = 401 <=> ~Accepts(req.auth_request, req.now)
  /\ (/\ req.endpoint = "/callback"
      /\ req.upstream_oauth2_request.sig = ServerKey)
       => /\ req.upstream_oauth2_request.exp
               = req.upstream_oauth2_request.iat + UpstreamRequestMaxAge
          /\ (resp.status = 500 /\ resp.body = TextBody("parse error"))
               <=> ~Accepts(req.upstream_oauth2_request, req.now)
  /\ (/\ req.endpoint = "/token"
      /\ req.code.sig = ServerKey)
       => /\ req.code.exp = req.code.iat + CodeTTL
          /\ resp.status = 401 <=> ~Accepts(req.code, req.now)
  /\ (/\ req.endpoint = "/userinfo"
      /\ req.authorization.token.sig = ServerKey)
       => /\ req.authorization.token = rp.access_token
            => req.authorization.token.exp
                 = req.authorization.token.iat + AccessTokenTTL
          /\ resp.status = 401 <=> ~Accepts(req.authorization.token, req.now)

ApprovedIdentity ==
  CHOOSE i \in { Identities(req.login_key)[k] :
                   k \in 1..Len(Identities(req.login_key)) } :
    i.Id = req.identity_id

\* The scope holds the token, among its tokens separated by spaces.
ScopeHolds(scope, what) ==
  \E k \in 1..Len(StringsSplit(scope, SP)) : StringsSplit(scope, SP)[k] = what

\* C9: in every ID token that /approve issues, email and email_verified are
\* there if and only if the scope stored in the AuthRequest holds the token
\* 'email', and name is there if and only if the scope holds 'profile' and
\* the identity's name is not empty.
C9_ScopeClaims ==
  (req.endpoint = "/approve" /\ resp.status = 303) =>
    LET claims == flow.approve.minted.id_token.claims
        scope == req.auth_request.claims.scope
    IN /\ "email" \in DOMAIN claims <=> ScopeHolds(scope, S_email)
       /\ "email_verified" \in DOMAIN claims <=> ScopeHolds(scope, S_email)
       /\ "email" \in DOMAIN claims => claims.email = ApprovedIdentity.Email
       /\ "name" \in DOMAIN claims
            <=> (ScopeHolds(scope, S_profile) /\ ApprovedIdentity.Name # "")
       /\ "name" \in DOMAIN claims => claims.name = ApprovedIdentity.Name

\* A named identity is approved for a scope with 'profile' and without
\* 'email'.
C9_Witness ==
  /\ req.endpoint = "/approve"
  /\ resp.status = 303
  /\ req.auth_request.claims.scope = S_openid \o <<SP>> \o S_profile
  /\ ApprovedIdentity.Name = "Alice"
  /\ DOMAIN flow.approve.minted.id_token.claims
       = {"sub", "aud", "iss", "nonce", "name"}

\* The email of the identity approved by the approval the relying party's
\* code and tokens come from.
FlowEmail ==
  LET idents == Identities(flow.approve.login_key)
  IN (CHOOSE i \in { idents[k] : k \in 1..Len(idents) } :
        i.Id = flow.approve.identity_id).Email

\* C10, as stated: for every approval, whatever the scope, the sub of the
\* code is the approved identity's email; so is the sub of the access token
\* that /token issues for the code, and so are the sub and the email that
\* /userinfo returns for that access token.
C10_CodeSubjectIsEmail ==
  /\ (req.endpoint = "/approve" /\ resp.status = 303)
       => Subject(flow.approve.minted.code) = ApprovedIdentity.Email
  /\ (req.endpoint = "/token" /\ resp.status = 200)
       => Subject(resp.body.access_token) = FlowEmail
  /\ (/\ req.endpoint = "/userinfo"
      /\ resp.status = 200
      /\ req.authorization.token = rp.access_token)
       => /\ resp.body.sub = FlowEmail
          /\ resp.body.email = FlowEmail

\* C10's failing case: alice is approved for the scope "openid", and the
\* code's sub is the empty string.
C10_Witness ==
  /\ req.endpoint = "/approve"
  /\ resp.status = 303
  /\ req.auth_request.claims.scope = S_openid
  /\ ApprovedIdentity.Email = "alice@example.com"
  /\ Subject(flow.approve.minted.code) = ""

\* C10, where it does hold: when the scope holds the token 'email'.
C10_CodeSubjectWithEmailScope ==
  (/\ req.endpoint = "/approve"
   /\ resp.status = 303
   /\ ScopeHolds(req.auth_request.claims.scope, S_email))
    => Subject(flow.approve.minted.code) = ApprovedIdentity.Email

\* What the receiver of a successful /approve reads from its Location, when
\* Given(state) is the state it is to find there.
ApproveRedirect(Given(_)) ==
  (req.endpoint = "/approve" /\ resp.status = 303) =>
    LET auth == flow.approve.auth
        stored == req.auth_request.claims.redirect_uri
    IN /\ stored = auth.redirect_uri
       /\ IF auth.response_type = "none"
          THEN /\ resp.location.url = Chars(stored)
               /\ ~CodeIssued(resp)
          ELSE /\ resp.location.uri = stored
               /\ CodeIssued(resp)
               /\ resp.location.query.code = flow.approve.minted.code
               /\ "state" \in DOMAIN resp.location.query
               /\ resp.location.query.state = Given(auth.state)

\* The state as it is: what C11 states.
StateGiven(state) == state

\* The state up to its first reserved character: what a state written into
\* the Location without escaping is read as.
StateRead(state) == Text(Before(Chars(state), "&"))

\* C11: a successful /approve answers 303; when the AuthRequest's
\* response_type is 'none' the Location is exactly the stored redirect_uri,
\* without a code; for any other response_type the Location is the stored
\* redirect_uri carrying the signed code and the state value given on the
\* originating /auth request.
C11_ApproveRedirect == ApproveRedirect(StateGiven)

\* C11's failing case: the /auth request gave the state "a&b", and the
\* Location of the approval carries the state "a" and a parameter "b".
C11_Witness ==
  /\ req.endpoint = "/approve"
  /\ resp.status = 303
  /\ flow.approve.auth.state = "a&b"
  /\ resp.location.query.code = flow.approve.minted.code
  /\ resp.location.query.state = "a"
  /\ "b" \in DOMAIN resp.location.query

\* C11, where it does hold: the rest of the claim, and the state as far as
\* its first reserved character.
C11_ApproveRedirectUnescaped == ApproveRedirect(StateRead)

\* The approval of a request with response_type 'none'.
C11_WitnessNone ==
  /\ req.endpoint = "/approve"
  /\ resp.status = 303
  /\ flow.approve.auth.response_type = "none"
  /\ resp.location.url = <<Lit("https://rp.example/cb")>>

\* The /auth request names a client and a redirect URI that parse and are on
\* the same host.
HostMatching(form) ==
  /\ form.client_id # ""
  /\ form.redirect_uri # ""
  /\ UrlParseOk(form.client_id)
  /\ UrlParseOk(form.redirect_uri)
  /\ UrlHost(form.client_id) = UrlHost(form.redirect_uri)

\* The text redirect_uri?error=<error>&state=<state>.
ErrorUrl(form, error) ==
  Chars(form.redirect_uri)
    \o <<Delim("?"), Lit("error"), Delim("="), Lit(error), Delim("&"),
         Lit("state"), Delim("=")>>
    \o Chars(form.state)

\* /auth has answered with a redirect to the error, and with no cookie.
RedirectsWith(form, error) ==
  /\ resp.status = 303
  /\ resp.location.url = ErrorUrl(form, error)
  /\ resp.location.uri = form.redirect_uri
  /\ resp.location.query.error = error
  /\ resp.cookies = NoCookies
  /\ resp.body = NoBody

\* C12: an /auth request with valid, host-matching client_id and
\* redirect_uri and no response_type is answered with a 303 redirect to
\* redirect_uri?error=unsupported_response_type&state=<state>, and sets no
\* auth_request and no return_uri cookie; one with prompt=none is answered
\* likewise with error=interaction_required, also when it has no
\* response_type.
C12_AuthErrorRedirects ==
  (req.endpoint = "/auth" /\ HostMatching(req.form)) =>
    /\ req.form.prompt = "none" =>
         RedirectsWith(req.form, "interaction_required")
    /\ (req.form.prompt # "none" /\ req.form.response_type = "") =>
         RedirectsWith(req.form, "unsupported_response_type")

\* Both conditions hold, the state has a reserved character, and the answer
\* is interaction_required.
C12_Witness ==
  /\ req.endpoint = "/auth"
  /\ req.form.prompt = "none"
  /\ req.form.response_type = ""
  /\ req.form.state = "a&b"
  /\ RedirectsWith(req.form, "interaction_required")

\* The check of /auth on the hosts of a client and a redirect URI:
\* ParseAuthRequest does not answer 400 for the pair.
PassesHostCheck(clientId, redirectUri) ==
  /\ UrlParseOk(clientId)
  /\ UrlParseOk(redirectUri)
  /\ SameHost(clientId, redirectUri)

\* What /register answers, when Registrable(uris) says for which lists it
\* registers a client and Plain(uri) for which first URIs the client passes
\* the host check of /auth.
Registration(Registrable(_), Plain(_)) ==
  req.endpoint = "/register" =>
    LET uris == req.body.redirect_uris
    IN IF req.body.json /\ Registrable(uris)
       THEN /\ resp.status = 201
            /\ resp.body.client_id = HttpsUri(UrlHost(uris[1]))
            /\ Plain(uris[1]) =>
                 PassesHostCheck(resp.body.client_id, uris[1])
       ELSE /\ resp.status = 400
            /\ "client_id" \notin DOMAIN resp.body

NonEmpty(uris) == Len(uris) > 0
AnyUri(uri) == TRUE

\* C13: POST /register with a non-empty redirect_uris list returns 201 with
\* client_id = 'https://' + host(redirect_uris[0]), and the returned
\* client_id with that redirect URI passes the host-equality check of /auth;
\* with an empty or missing list it returns 400 and no client_id.
C13_Registration == Registration(NonEmpty, AnyUri)

\* C13's failing case: the host of the first URI holds an escaped percent
\* sign; the client is registered and its client_id is on another host.
C13_Witness ==
  /\ req.endpoint = "/register"
  /\ req.body.redirect_uris = <<"https://a%25bc/cb">>
  /\ resp.status = 201
  /\ resp.body.client_id = "https://a%bc"
  /\ ~PassesHostCheck(resp.body.client_id, req.body.redirect_uris[1])

FirstParses(uris) == Len(uris) > 0 /\ UrlParseOk(uris[1])
NoPercent(uri) == uri # "https://a%25bc/cb"

\* C13, where it does hold: for a list whose first URI parses, and for the
\* host check when the host of that URI holds no percent sign.
C13_RegistrationParsed == Registration(FirstParses, NoPercent)

\* A list of two URIs on different hosts is registered for the first host.
C13_WitnessParsed ==
  /\ req.endpoint = "/register"
  /\ Len(req.body.redirect_uris) = 2
  /\ resp.status = 201
  /\ resp.body.client_id = "https://evil.example"

\* The request of Validate carries no session the server accepts: no
\* cookie, one whose signature does not verify, one that has expired, or an
\* envelope without identities.
ValidateFails ==
  \/ ~HasCookie(req.login_key)
  \/ ~InForce(req.login_key, req.now)
  \/ ~HasClaim(req.login_key, "identities")

\* C14: with forward-auth passthrough enabled, Validate returns (nil, nil)
\* for every failure (no login_key cookie, invalid signature, expired
\* envelope, no identities claim) and never returns an error; with
\* passthrough disabled each of those failures returns a nil validation
\* with a non-nil error.
C14_ValidatePassthrough ==
  req.endpoint = "Validate" =>
    /\ config.passthrough => resp.body.err = "nil"
    /\ ValidateFails =>
         /\ resp.body.validation = NilValidation
         /\ ~resp.body.panic
         /\ resp.body.err = "nil" <=> config.passthrough

\* With passthrough, an expired session gets (nil, nil).
C14_Witness ==
  /\ req.endpoint = "Validate"
  /\ config.passthrough
  /\ req.login_key.sig = ServerKey
  /\ HasClaim(req.login_key, "identities")
  /\ req.now >= req.login_key.exp
  /\ resp.body.validation = NilValidation
  /\ resp.body.err = "nil"

\* Without passthrough, an envelope of the server that holds no identities
\* gets an error.
C14_WitnessNoIdentities ==
  /\ req.endpoint = "Validate"
  /\ ~config.passthrough
  /\ InForce(req.login_key, req.now)
  /\ ~HasClaim(req.login_key, "identities")
  /\ resp.body.err = "No identities"

\* A session in force is validated as its first identity.
C14_WitnessValid ==
  /\ req.endpoint = "Validate"
  /\ ~ValidateFails
  /\ resp.body.validation = [IdType |-> "email", Id |-> "alice@example.com"]

\* The identity that a successful /callback has appended: the email the
\* provider gave, under the provider's name.
CallbackKey ==
  LET provider ==
        GetOAuth2ProviderByID(req.upstream_oauth2_request.claims.provider_id)
  IN [Id |-> IF provider.OpenIDConnect
             THEN TokenEmail(req.answer.id_token.claims)
             ELSE req.answer.profile_email,
      ProviderName |-> provider.Name]

IdentityKey(ident) == [Id |-> ident.Id, ProviderName |-> ident.ProviderName]

\* The keys of a list of identities, in its order.
Keys(idents) == [i \in 1..Len(idents) |-> IdentityKey(idents[i])]

\* No two identities of the list have the same Id and ProviderName.
Distinct(idents) ==
  \A i, j \in 1..Len(idents) :
    IdentityKey(idents[i]) = IdentityKey(idents[j]) => i = j

AppendedIdentity ==
  /\ req.endpoint = "/callback"
  /\ resp.status = 303
  /\ "login_key" \in DOMAIN resp.cookies

\* C15: every session cookie holds distinct identities by (id,
\* provider_name); and each AppendIdentity, applied to the cookie of the
\* previous one while it is valid, yields a cookie that parses to the
\* previous identities in their order, followed by the new identity unless
\* an identity with its id and provider_name is among them.
C15_AppendIdentity ==
  /\ Distinct(Identities(jar.login_key))
  /\ AppendedIdentity =>
       LET old == IF InForce(req.login_key, req.now)
                  THEN Identities(req.login_key) ELSE <<>>
           cookie == resp.cookies.login_key
           new == Identities(cookie)
           present == \E i \in 1..Len(old) : Keys(old)[i] = CallbackKey
       IN /\ JwtParse(cookie, publicJwks, req.now)
          /\ Distinct(new)
          /\ IF present THEN new = old
             ELSE /\ SubSeq(new, 1, Len(old)) = old
                  /\ Keys(new) = Append(Keys(old), CallbackKey)

\* The first of two identities is added again: the cookie keeps the two in
\* their order.
C15_Witness ==
  /\ AppendedIdentity
  /\ Len(Identities(req.login_key)) = 2
  /\ Keys(Identities(req.login_key))[1] = CallbackKey
  /\ Keys(Identities(req.login_key))[2] # CallbackKey
  /\ Identities(resp.cookies.login_key) = Identities(req.login_key)

\* /callback has answered with an error.
CallbackError ==
  /\ req.endpoint = "/callback"
  /\ resp.status >= 400

\* The failure is one of appending the identity or setting the login
\* cookie: everything before it has passed.
FailsAppending ==
  /\ CallbackError
  /\ req.append_fails
  /\ callbackHandler(req.form, req.upstream_oauth2_request, req.login_key,
                     req.return_uri, req.answer, FALSE, config,
                     req.now).status = 303

\* C16: every /callback request that ends in an error response (4xx/5xx)
\* sets and deletes no cookie, also when the failure occurs while appending
\* the identity or setting the login cookie.
C16_CallbackErrorNoCookies == CallbackError => resp.cookies = NoCookies

\* C16's failing case: appending the identity fails, and the 500 response
\* deletes the return_uri cookie, which the user agent then has lost.
C16_Witness ==
  /\ FailsAppending
  /\ resp.status = 500
  /\ DOMAIN resp.cookies = {"return_uri"}
  /\ resp.cookies.return_uri = None
  /\ req.return_uri # None
  /\ jar.return_uri = None

\* C16, where it does hold: for every error before the identity is
\* appended; and a failure of appending leaves the session cookie and the
\* upstream_oauth2_request cookie alone.
C16_CallbackErrorBeforeAppend ==
  CallbackError =>
    IF FailsAppending THEN DOMAIN resp.cookies = {"return_uri"}
    ELSE resp.cookies = NoCookies

\* The nonce of the ID token is another: 403, no cookie.
C16_WitnessBeforeAppend ==
  /\ CallbackError
  /\ resp.status = 403
  /\ resp.cookies = NoCookies

\* /callback has come to the check of the account: with a public server the
\* request would have logged the user in.
ReachesAccountCheck ==
  /\ req.endpoint = "/callback"
  /\ ~req.append_fails
  /\ callbackHandler(req.form, req.upstream_oauth2_request, req.login_key,
                     req.return_uri, req.answer, FALSE,
                     [config EXCEPT !.public = TRUE], req.now).status = 303

\* C17: in /callback, when the server is not public and the verified email
\* is not among the configured users, the response is a 303 redirect to
\* /no-account?<return_uri> and nothing else: no identity is appended to the
\* session cookie, and the upstream_oauth2_request and return_uri cookies
\* are not cleared.
C17_NoAccount ==
  (/\ ReachesAccountCheck
   /\ ~config.public
   /\ CallbackKey.Id \notin config.users)
    => /\ resp.status = 303
       /\ resp.location.url = <<Lit(NoAccountUri), Delim("?")>>
                                \o ReturnUriText(req.return_uri.value)
       /\ resp.location.uri = NoAccountUri
       /\ resp.cookies = NoCookies
       /\ jar.login_key = req.login_key
       /\ jar.return_uri = req.return_uri
       /\ jar.upstream_oauth2_request = req.upstream_oauth2_request

\* bob, who is no user, logs in at the provider after alice has logged in:
\* the session stays alice's, and the two cookies stay.
C17_Witness ==
  /\ ReachesAccountCheck
  /\ ~config.public
  /\ CallbackKey.Id = "bob@example.com"
  /\ resp.location.uri = NoAccountUri
  /\ Len(Identities(jar.login_key)) = 1
  /\ jar.return_uri # None
  /\ jar.upstream_oauth2_request # None

\* C18: /approve issues an authorization code only if the hash of the
\* session cookie presented on the /approve request equals the
\* login_key_hash stored in the AuthRequest envelope that /auth minted.
C18_ApproveBoundToSession ==
  (req.endpoint = "/approve" /\ CodeIssued(resp)) =>
    Hash(req.login_key) = req.auth_request.claims.login_key_hash

\* C18's failing case: /auth was asked without a session, the user logged
\* in afterwards, and /approve issues a code for the new session's identity.
C18_Witness ==
  /\ req.endpoint = "/approve"
  /\ CodeIssued(resp)
  /\ resp.location.query.code = flow.approve.minted.code
  /\ req.auth_request.claims.login_key_hash = EmptyHash
  /\ InForce(req.login_key, req.now)
  /\ Hash(req.login_key) # req.auth_request.claims.login_key_hash

\* The ID token that the provider of a /callback request answered with does
\* not verify against the provider's keys.
UpstreamIdTokenInvalid ==
  LET id == claimFromToken("provider_id", req.upstream_oauth2_request)
  IN /\ InForce(req.upstream_oauth2_request, req.now)
     /\ ProviderKnown(id)
     /\ GetOAuth2ProviderByID(id).OpenIDConnect
     /\ req.answer.token = "ok"
     /\ HasCookie(req.answer.id_token)
     /\ ~JwtParse(req.answer.id_token, GetKeyset(id), req.now)

\* What the endpoints answer to an envelope that is there and is not in
\* force (its signature does not verify, or it has expired), when /callback
\* answers with the given status.
InvalidEnvelope(callbackStatus) ==
  /\ (/\ req.endpoint = "/approve"
      /\ req.method = "POST"
      /\ HasCookie(req.login_key)
      /\ ~InForce(req.login_key, req.now)) => resp.status = 401
  /\ (/\ req.endpoint = "/approve"
      /\ req.method = "POST"
      /\ InForce(req.login_key, req.now)
      /\ HasCookie(req.auth_request)
      /\ ~InForce(req.auth_request, req.now)) => resp.status = 401
  /\ (/\ req.endpoint = "/token"
      /\ HasCookie(req.code)
      /\ ~InForce(req.code, req.now)) => resp.status = 401
  /\ (/\ req.endpoint = "/userinfo"
      /\ req.authorization.parts = 2
      /\ HasCookie(req.authorization.token)
      /\ ~InForce(req.authorization.token, req.now)) => resp.status = 401
  /\ (/\ req.endpoint = "/callback"
      /\ HasCookie(req.upstream_oauth2_request)
      /\ ~InForce(req.upstream_oauth2_request, req.now))
       => resp.status = callbackStatus
  /\ (/\ req.endpoint = "/callback"
      /\ UpstreamIdTokenInvalid) => resp.status = callbackStatus

\* C19: every endpoint that verifies a signed envelope or token (/approve
\* the session and auth_request cookies, /token the code, /userinfo the
\* access token, /callback the upstream_oauth2_request cookie and the
\* upstream ID token) answers 401 when the envelope has an invalid signature
\* or has expired.
C19_InvalidEnvelope401 == InvalidEnvelope(401)

\* C19's failing case: /callback is given an upstream_oauth2_request cookie
\* whose signature does not verify, and answers 500.
C19_Witness ==
  /\ req.endpoint = "/callback"
  /\ HasCookie(req.upstream_oauth2_request)
  /\ req.upstream_oauth2_request.sig # ServerKey
  /\ resp.status = 500

\* /callback is given an ID token signed with another key, and answers 500.
C19_WitnessIdToken ==
  /\ req.endpoint = "/callback"
  /\ UpstreamIdTokenInvalid
  /\ req.answer.id_token.sig = ForgedKey
  /\ resp.status = 500

\* C19, where it does hold: /approve, /token and /userinfo answer 401;
\* /callback answers 500.
C19_InvalidEnvelope == InvalidEnvelope(500)

\* C20: a non-POST request to /approve always receives a complete 405
\* response, whatever requests (in particular /register requests with
\* well-formed or malformed bodies) were handled before it: the outcome does
\* not depend on the err variable that /register assigns.
C20_ApproveNonPost405 ==
  (req.endpoint = "/approve" /\ req.method # "POST") =>
    /\ resp.status = 405
    /\ resp.body.kind = "text"

\* C20's failing case: no /register request has failed to decode, err is
\* nil, and the handler panics at err.Error(): no response is written.
C20_Witness ==
  /\ req.endpoint = "/approve"
  /\ req.method = "GET"
  /\ err = "nil"
  /\ resp.status = 0
  /\ resp.body.kind = "panic"

\* After a /register request with a malformed body the same request gets
\* 405, with the text of that request's decoding error.
C20_WitnessAfterRegister ==
  /\ req.endpoint = "/approve"
  /\ req.method = "GET"
  /\ err = "error"
  /\ resp.status = 405

\* C20, where it does hold: a non-POST request never gets further than the
\* method check; it gets 405 exactly when err is not nil.
C20_ApproveNonPostByErr ==
  (req.endpoint = "/approve" /\ req.method # "POST") =>
    /\ resp.cookies = NoCookies
    /\ ~CodeIssued(resp)
    /\ IF err = "nil" THEN resp.status = 0 /\ resp.body.kind = "panic"
       ELSE resp.status = 405 /\ resp.body.kind = "text"

\* What /token issues as access token and what /userinfo answers to it, when
\* Accepts says at which instants the token is in force.
AccessTokenLifetime(Accepts(_, _)) ==
  /\ (req.endpoint = "/token" /\ resp.status = 200) =>
       LET tok == resp.body.access_token
       IN /\ tok.sig = ServerKey
          /\ tok.iat = req.now
          /\ tok.exp = tok.iat + AccessTokenTTL
          /\ Subject(tok) = Subject(req.code)
          /\ resp.body.expires_in = ExpiresIn
          /\ ExpiresIn > AccessTokenTTL
  /\ (/\ req.endpoint = "/userinfo"
      /\ req.authorization.parts = 2
      /\ req.authorization.token.sig = ServerKey
      /\ req.authorization.token = rp.access_token) =>
       IF Accepts(req.authorization.token, req.now)
       THEN /\ resp.status = 200
            /\ resp.body.sub = Subject(req.authorization.token)
       ELSE resp.status = 401

C21_WitnessLastSecond ==
  /\ req.endpoint = "/userinfo"
  /\ req.authorization.token = rp.access_token
  /\ rp.access_token.sig = ServerKey
  /\ req.now = rp.access_token.iat + AccessTokenTTL - 1
  /\ resp.status = 200

\* Every element of the one list is an element of the other.
AllIn(a, b) == \A i \in 1..Len(a) : \E j \in 1..Len(b) : b[j] = a[i]

\* The new session cookie has every identity and every login of the old.
Keeps(old, new) ==
  /\ AllIn(Identities(old), Identities(new))
  /\ \A c \in DOMAIN Logins(old) :
       /\ c \in DOMAIN Logins(new)
       /\ AllIn(Logins(old)[c], Logins(new)[c])

\* The user agent has applied a response that rewrites the session cookie,
\* while it held a valid one.
SessionRewritten ==
  /\ req.endpoint \in {"/callback", "/approve"}
  /\ "login_key" \in DOMAIN resp.cookies
  /\ jar.login_key = resp.cookies.login_key
  /\ InForce(req.held, req.now)

C22_WitnessSequential ==
  /\ SessionRewritten
  /\ req.login_key = req.held
  /\ Len(Identities(req.held)) = 1
  /\ Len(Identities(jar.login_key)) = 2

\* A POST to /approve has passed the check of the session cookie.
PassesSessionCheck ==
  /\ req.endpoint = "/approve"
  /\ req.method = "POST"
  /\ InForce(req.login_key, req.now)

C23_WitnessRetry ==
  /\ PassesSessionCheck
  /\ req.auth_request = None
  /\ flow.auth # None
  /\ resp.status = 401

\* The response that /callback gives to the request of this state when its
\* state parameter is replaced.
CallbackWithState(state) ==
  callbackHandler(CallbackForm(state), req.upstream_oauth2_request,
                  req.login_key, req.return_uri, req.answer,
                  req.append_fails, config, req.now)

\* C24: /login-oauth2 stores the state it sends in the upstream request
\* envelope, and /callback never checks it: the response to a /callback
\* request, with the cookies it sets, is the response to the same request
\* with any other state parameter or with none.
C24_CallbackIgnoresState ==
  /\ (req.endpoint = "/login-oauth2" /\ resp.status = 303) =>
       /\ HasClaim(resp.cookies.upstream_oauth2_request, "state")
       /\ resp.cookies.upstream_oauth2_request.claims["state"]
            = resp.location.query.state
  /\ req.endpoint = "/callback" =>
       \A state \in CallbackStates : resp = CallbackWithState(state)

\* A /callback request with another state than the stored one logs in.
C24_Witness ==
  /\ req.endpoint = "/callback"
  /\ JwtParse(req.upstream_oauth2_request, publicJwks, req.now)
  /\ req.form.state # claimFromToken("state", req.upstream_oauth2_request)
  /\ req.form.state # ""
  /\ resp.status = 303
  /\ "login_key" \in DOMAIN resp.cookies
  /\ jar.login_key = resp.cookies.login_key

\* A /callback request without a state parameter logs in.
C24_WitnessAbsent ==
  /\ req.endpoint = "/callback"
  /\ req.form.state = ""
  /\ resp.status = 303
  /\ "login_key" \in DOMAIN resp.cookies

\* The cookies a /callback response changes, among the three of a login.
CallbackChanges ==
  DOMAIN resp.cookies \cap {"login_key", "upstream_oauth2_request",
                            "return_uri"}

\* The response of a successful /callback: a 303 to the stored return URI
\* that rewrites the session cookie with the identity of the email, clears
\* upstream_oauth2_request and deletes return_uri.
CallbackSuccess ==
  /\ resp.status = 303
  /\ resp.location = Location(ReturnUriText(req.return_uri.value))
  /\ CallbackChanges = {"login_key", "upstream_oauth2_request", "return_uri"}
  /\ resp.cookies.upstream_oauth2_request = None
  /\ resp.cookies.return_uri = None
  /\ JwtParse(resp.cookies.login_key, publicJwks, req.now)
  /\ \E i \in 1..Len(Identities(resp.cookies.login_key)) :
       LET ident == Identities(resp.cookies.login_key)[i]
       IN /\ IdentityKey(ident) = CallbackKey
          /\ ident.IdType = "email"
          /\ ident.Email = ident.Id
          /\ ident.EmailVerified

\* C25: a /callback that has passed verification and the access gate
\* answers 303 to the stored return URI, rewrites the session cookie with
\* the identity (email, provider's name, verified), clears
\* upstream_oauth2_request and deletes return_uri; and no /callback
\* response makes one of these three cookie changes without the other two.
C25_CallbackCookiesTogether ==
  req.endpoint = "/callback" =>
    /\ ReachesAccountCheck
         /\ (config.public \/ validUser(CallbackKey.Id, config.users))
         => CallbackSuccess
    /\ CallbackChanges # {} => CallbackSuccess

\* Verification and the access gate have passed, the session cookie could
\* not be written: the 500 response deletes return_uri and changes neither
\* of the other two cookies.
C25_Witness ==
  /\ req.endpoint = "/callback"
  /\ req.append_fails
  /\ resp.status = 500
  /\ CallbackChanges = {"return_uri"}
  /\ HasCookie(req.return_uri)
  /\ jar.return_uri = None
  /\ jar.upstream_oauth2_request = req.upstream_oauth2_request
  /\ jar.login_key = req.held

\* C25 without the failure to write the session cookie: the three changes
\* come together, in the 303 of a passed verification and access gate.
C25_CallbackCookiesOnSuccess ==
  (req.endpoint = "/callback" /\ ~req.append_fails) =>
    /\ ReachesAccountCheck
         /\ (config.public \/ validUser(CallbackKey.Id, config.users))
         => CallbackSuccess
    /\ CallbackChanges # {} => CallbackSuccess

\* A listed user's login with the three cookie changes applied.
C25_WitnessSuccess ==
  /\ req.endpoint = "/callback"
  /\ ~config.public
  /\ CallbackSuccess
  /\ jar.return_uri = None
  /\ jar.upstream_oauth2_request = None
  /\ jar.login_key = resp.cookies.login_key

\* The same elements, each as often.
SameElements(a, b) ==
  /\ Len(a) = Len(b)
  /\ \A i \in 1..Len(a) :
       Cardinality({ k \in 1..Len(a) : a[k] = a[i] })
         = Cardinality({ k \in 1..Len(b) : b[k] = a[i] })

\* No login of the list is of the identity.
NoLoginOf(ls, ident) ==
  \A k \in 1..Len(ls) :
    ~(ls[k].Id = ident.Id /\ ls[k].ProviderName = ident.ProviderName)

\* The session that an /auth request carries, when it is valid.
AuthSessionValid ==
  /\ HasCookie(req.login_key)
  /\ InForce(req.login_key, req.now)

\* C26: on a successful /auth, previous_logins is logins[client_id] of the
\* valid session cookie ordered by timestamp descending, and
\* remaining_identities is the subsequence, in insertion order, of the
\* session's identities that have no login in previous_logins with their id
\* and provider_name; with a missing, invalid or expired session cookie
\* both are empty, and the request succeeds whatever its session cookie.
C26_AuthLists ==
  req.endpoint = "/auth" =>
    /\ resp.status = 200 <=> ParseAuthRequest(req.form).ok
    /\ resp.status = 200 =>
         LET logins == IF AuthSessionValid THEN Logins(req.login_key)
                       ELSE [c \in {} |-> <<>>]
             stored == IF req.form.client_id \in DOMAIN logins
                       THEN logins[req.form.client_id] ELSE <<>>
             identities == IF AuthSessionValid THEN Identities(req.login_key)
                           ELSE <<>>
             previous == resp.body.PreviousLogins
         IN /\ SameElements(previous, stored)
            /\ \A i, j \in 1..Len(previous) :
                 i < j => previous[i].Timestamp >= previous[j].Timestamp
            /\ resp.body.RemainingIdentities
                 = SelectSeq(identities,
                             LAMBDA ident : NoLoginOf(previous, ident))
            /\ ~AuthSessionValid =>
                 /\ previous = <<>>
                 /\ resp.body.RemainingIdentities = <<>>

\* Two logins at different times are listed newest first, and of two
\* identities with the same id the one without a login remains.
C26_Witness ==
  /\ req.endpoint = "/auth"
  /\ resp.status = 200
  /\ AuthSessionValid
  /\ Len(resp.body.PreviousLogins) = 2
  /\ resp.body.PreviousLogins[1].Timestamp > resp.body.PreviousLogins[2].Timestamp
  /\ resp.body.PreviousLogins # Logins(req.login_key)[req.form.client_id]
  /\ Len(Identities(req.login_key)) = 2
  /\ Identities(req.login_key)[1].Id = Identities(req.login_key)[2].Id
  /\ Len(resp.body.RemainingIdentities) = 1

\* An expired session cookie with identities and logins: both lists empty.
C26_WitnessExpired ==
  /\ req.endpoint = "/auth"
  /\ resp.status = 200
  /\ HasCookie(req.login_key)
  /\ req.login_key.sig = ServerKey
  /\ req.now >= req.login_key.exp
  /\ Len(Identities(req.login_key)) > 0
  /\ req.form.client_id \in DOMAIN Logins(req.login_key)
  /\ resp.body.PreviousLogins = <<>>
  /\ resp.body.RemainingIdentities = <<>>

\* The assertion's signature verifies against the keys of its own issuer.
SignedByIssuer(tok) ==
  /\ JwtParseInsecure(tok)
  /\ GetOidcConfigurationOk(tok.iss)
  /\ tok.sig \in JwksOf(tok.iss)

\* The identity of an assertion: its email, under its issuer's name.
FedcmKey == [Id |-> TokenEmail(req.token.claims), ProviderName |-> req.token.iss]

\* The response of /complete-login-fedcm changes something at the user
\* agent: a cookie, the login status, or where it is.
FedcmActs ==
  \/ resp.cookies # NoCookies
  \/ resp.headers # NoHeaders
  \/ resp.status = 303

\* C27: /complete-login-fedcm appends an identity, sets Set-Login:
\* logged-in and redirects to the stored return URI only if the request is a
\* POST and the assertion's signature verifies against the key set fetched
\* for the assertion's own iss; a request that is no POST gets 405; and
\* every failure leaves the session cookie and the return_uri cookie as
\* they were and sets no Set-Login header.
C27_FedcmOnlyVerified ==
  req.endpoint = "/complete-login-fedcm" =>
    /\ FedcmActs =>
         /\ req.method = "POST"
         /\ SignedByIssuer(req.token)
         /\ resp.status = 303
         /\ resp.headers = SetLogin
         /\ resp.location = Location(ReturnUriText(req.return_uri.value))
         /\ \E i \in 1..Len(Identities(jar.login_key)) :
              IdentityKey(Identities(jar.login_key)[i]) = FedcmKey
         /\ jar.return_uri = None
    /\ req.method # "POST" => resp.status = 405
    /\ resp.status # 303 =>
         /\ resp.status >= 400
         /\ resp.cookies = NoCookies
         /\ resp.headers = NoHeaders
         /\ jar.login_key = req.held
         /\ jar.return_uri = req.return_uri

\* An assertion of an issuer that anybody can run, signed by that issuer,
\* logs in.
C27_Witness ==
  /\ req.endpoint = "/complete-login-fedcm"
  /\ resp.status = 303
  /\ req.token.iss = "https://evil.example"
  /\ resp.headers = SetLogin
  /\ FedcmKey.ProviderName = "https://evil.example"
  /\ jar.login_key = resp.cookies.login_key

\* A verified assertion with no return_uri cookie, and one with a return_uri
\* cookie and a failing append: 500, the cookies as they were.
C27_WitnessFailure ==
  /\ req.endpoint = "/complete-login-fedcm"
  /\ req.method = "POST"
  /\ SignedByIssuer(req.token)
  /\ JwtParse(req.token, JwksOf(req.token.iss), req.now)
  /\ resp.status = 500
  /\ HasCookie(req.held)
  /\ \/ ~HasCookie(req.return_uri) /\ ~req.append_fails
     \/ HasCookie(req.return_uri) /\ req.append_fails
  /\ jar.login_key = req.held

\* The signature is not the issuer's: 500.
C27_WitnessForged ==
  /\ req.endpoint = "/complete-login-fedcm"
  /\ req.method = "POST"
  /\ JwtParseInsecure(req.token)
  /\ req.token.sig = ForgedKey
  /\ HasCookie(req.return_uri)
  /\ ~req.append_fails
  /\ resp.status = 500

\* A login path has answered with a session cookie rewritten.
LoginAppends ==
  /\ req.endpoint \in {"/callback", "/complete-login-fedcm"}
  /\ "login_key" \in DOMAIN resp.cookies

\* The email of the identity that the login path appends.
LoginEmail ==
  IF req.endpoint = "/callback" THEN CallbackKey.Id ELSE FedcmKey.Id

\* C30: when the server is not public, no login path appends to a session
\* cookie an identity whose email is not in the users list, /callback and
\* /complete-login-fedcm alike: the session cookies hold listed emails only.
C30_AllowListGate ==
  ~config.public =>
    /\ LoginAppends => validUser(LoginEmail, config.users)
    /\ \A i \in 1..Len(Identities(jar.login_key)) :
         validUser(Identities(jar.login_key)[i].Email, config.users)

\* The server is not public, the assertion names an email that is not
\* listed: /complete-login-fedcm appends the identity.
C30_Witness ==
  /\ ~config.public
  /\ req.endpoint = "/complete-login-fedcm"
  /\ resp.status = 303
  /\ ~validUser(FedcmKey.Id, config.users)
  /\ \E i \in 1..Len(Identities(jar.login_key)) :
       /\ IdentityKey(Identities(jar.login_key)[i]) = FedcmKey
       /\ Identities(jar.login_key)[i].EmailVerified

\* C30 for /callback alone: when the server is not public, /callback
\* appends listed emails only.
C30_AllowListCallback ==
  (~config.public /\ req.endpoint = "/callback" /\ LoginAppends)
    => validUser(LoginEmail, config.users)

\* The server is not public: /callback turns an unlisted email away and
\* leaves the session cookie as it was.
C30_WitnessCallback ==
  /\ ~config.public
  /\ req.endpoint = "/callback"
  /\ ReachesAccountCheck
  /\ ~validUser(CallbackKey.Id, config.users)
  /\ resp.status = 303
  /\ ~LoginAppends
  /\ jar.login_key = req.held

\* An access token as /token mints it: signed by the server, a subject and
\* nothing else, 16 seconds.
IsAccessToken(tok) ==
  /\ tok.sig = ServerKey
  /\ DOMAIN tok.claims = {"sub"}
  /\ tok.exp = tok.iat + AccessTokenTTL

\* /userinfo has answered with subject information.
UserinfoAnswers ==
  /\ req.endpoint = "/userinfo"
  /\ resp.status = 200

\* C29: /userinfo returns subject information only for an access token
\* minted by /token, within its 16 seconds: every other envelope signed by
\* the server (ID token, authorization code, session cookie, auth_request,
\* upstream_oauth2_request) is rejected as a bearer token.
C29_UserinfoOnlyAccessTokens ==
  UserinfoAnswers =>
    /\ IsAccessToken(req.authorization.token)
    /\ req.now < req.authorization.token.iat + AccessTokenTTL

\* The access token has expired; the ID token that came with it is
\* presented as the bearer token, and /userinfo answers.
C29_Witness ==
  /\ UserinfoAnswers
  /\ rp.access_token.sig = ServerKey
  /\ req.now >= rp.access_token.iat + AccessTokenTTL
  /\ req.authorization.token = rp.id_token
  /\ ~IsAccessToken(rp.id_token)
  /\ rp.id_token.exp = rp.id_token.iat + IdTokenTTL
  /\ resp.body.sub = Subject(rp.id_token)

\* The authorization code is presented as the bearer token.
C29_WitnessCode ==
  /\ UserinfoAnswers
  /\ req.authorization.token = rp.code
  /\ HasClaim(rp.code, "id_token")

\* The session cookie, the auth_request and the upstream_oauth2_request
\* envelope are each presented as the bearer token.
C29_WitnessSession ==
  /\ UserinfoAnswers
  /\ req.authorization.token = jar.login_key
  /\ HasClaim(jar.login_key, "identities")

C29_WitnessAuthRequest ==
  /\ UserinfoAnswers
  /\ req.authorization.token = jar.auth_request

C29_WitnessUpstreamRequest ==
  /\ UserinfoAnswers
  /\ req.authorization.token = jar.upstream_oauth2_request

\* C29 as the code has it: /userinfo answers exactly for the envelopes that
\* the server has signed and that have not expired, whatever they are.
C29_UserinfoAnyEnvelope ==
  req.endpoint = "/userinfo" =>
    (resp.status = 200 <=>
       /\ req.authorization.parts = 2
       /\ InForce(req.authorization.token, req.now))

\* /callback has its response.
CallbackResponded ==
  /\ req.endpoint = "/callback"
  /\ resp # Pending

\* C28: every /callback request eventually produces a response, even if the
\* provider's token endpoint or profile endpoint never answers, because each
\* upstream HTTP call carries a request-scoped deadline.
C28_CallbackResponds == (req.endpoint = "/callback") ~> CallbackResponded

\* The handler waits in httpClient.Do for a provider that has not answered.
C28_Witness ==
  /\ req.endpoint = "/callback"
  /\ resp = Pending
  /\ req.answer = NoAnswer
  /\ ReachesExchange(req.upstream_oauth2_request, req.now)
  /\ HasCookie(req.return_uri)

\* C28 for a provider that answers: once httpClient.Do has returned, with
\* whatever answer, the request gets its response.
C28_AnsweredResponds ==
  (req.endpoint = "/callback" /\ req.answer # NoAnswer) ~> CallbackResponded

\* The provider has answered and the handler has responded.
C28_WitnessAnswered ==
  /\ CallbackResponded
  /\ req.answer # NoAnswer
  /\ resp.status = 303

\* The names under which a provider configured on this server vouches for
\* an identity: its Name, its URI.
ConfiguredProviders ==
  { p.Name : p \in Providers } \cup { ProviderUri(p.ID) : p \in Providers }

\* /approve has issued an ID token.
ApproveMints ==
  /\ req.endpoint = "/approve"
  /\ resp.status = 303
  /\ flow.approve.minted # None

\* The identities of the session that /approve may have taken for the
\* identity_id of the request: it compares the Id alone.
ApprovedBy ==
  { i \in 1..Len(Identities(req.login_key)) :
      Identities(req.login_key)[i].Id = req.identity_id }

\* C31: the sub of every ID token issued is the id of an identity that an
\* upstream provider configured on this server has vouched for: /approve
\* takes the identity by its id alone, and with FedCm enabled an identity is
\* accepted only from an issuer that is a configured provider.
C31_SubVouchedByProvider ==
  /\ ApproveMints =>
       /\ Subject(flow.approve.minted.id_token) = req.identity_id
       /\ ApprovedBy # {}
       /\ \A i \in ApprovedBy :
            Identities(req.login_key)[i].ProviderName \in ConfiguredProviders
  /\ \A i \in 1..Len(Identities(jar.login_key)) :
       Identities(jar.login_key)[i].ProviderName \in ConfiguredProviders

\* The server is not public; the session's only identity comes from an
\* assertion that https://evil.example signed for an email of its choice,
\* and /approve issues an ID token with that email as sub.
C31_Witness ==
  /\ ApproveMints
  /\ ~config.public
  /\ Len(Identities(req.login_key)) = 1
  /\ Identities(req.login_key)[1].ProviderName = "https://evil.example"
  /\ Identities(req.login_key)[1].EmailVerified
  /\ Subject(flow.approve.minted.id_token) = Identities(req.login_key)[1].Id
  /\ CodeIssued(resp)
  /\ rp.code # None

\* C31 without the provider: the sub of every ID token issued is the id of
\* an identity of the session, whoever vouched for it.
C31_SubHeldBySession ==
  ApproveMints =>
    /\ Subject(flow.approve.minted.id_token) = req.identity_id
    /\ ApprovedBy # {}

\* Two identities with the same id, from the provider and from the
\* self-chosen issuer: /approve takes the first, whichever it is.
C31_WitnessSameId ==
  /\ ApproveMints
  /\ Cardinality(ApprovedBy) = 2
  /\ Identities(req.login_key)[1].ProviderName
       # Identities(req.login_key)[2].ProviderName

\* What Validate returns for a session cookie at the time of the request.
Validated(cookie) == validate(cookie, config.passthrough, req.now).validation

\* A response of /callback or /approve rewrites the session cookie.
SessionIssued ==
  /\ req.endpoint \in {"/callback", "/approve"}
  /\ "login_key" \in DOMAIN resp.cookies

\* C32: Validate returns the {id_type, id} of the first identity of the
\* session cookie; every session cookie that the server issues holds at
\* least one identity, so that Validate never fails on it while it is valid;
\* and a rewrite of a valid session cookie by AppendIdentity (/callback) or
\* AppendLogin (/approve) leaves what Validate returns as it was.
C32_PrimaryIdentity ==
  /\ (req.endpoint = "Validate" /\ ~ValidateFails) =>
       /\ ~resp.body.panic
       /\ resp.body.err = "nil"
       /\ resp.body.validation
            = [IdType |-> Identities(req.login_key)[1].IdType,
               Id |-> Identities(req.login_key)[1].Id]
  /\ HasCookie(jar.login_key) => Len(Identities(jar.login_key)) >= 1
  /\ SessionIssued =>
       /\ Len(Identities(resp.cookies.login_key)) >= 1
       /\ Validated(resp.cookies.login_key) # NilValidation
       /\ InForce(req.login_key, req.now) =>
            Validated(resp.cookies.login_key) = Validated(req.login_key)

\* A second account has logged in and the first has approved: Validate
\* returns the first identity.
C32_Witness ==
  /\ req.endpoint = "Validate"
  /\ Len(Identities(req.login_key)) = 2
  /\ DOMAIN Logins(req.login_key) # {}
  /\ Identities(req.login_key)[1].Id # Identities(req.login_key)[2].Id
  /\ resp.body.validation.Id = Identities(req.login_key)[1].Id

\* The session cookie has expired: the next login starts a session of its
\* own, with another first identity.
C32_WitnessExpired ==
  /\ req.endpoint = "/callback"
  /\ SessionIssued
  /\ HasCookie(req.login_key)
  /\ ~InForce(req.login_key, req.now)
  /\ Len(Identities(resp.cookies.login_key)) = 1
  /\ Identities(resp.cookies.login_key)[1].Id # Identities(req.login_key)[1].Id

\* /approve rewrites a session of two identities for the second of them.
C32_WitnessApprove ==
  /\ req.endpoint = "/approve"
  /\ SessionIssued
  /\ Len(Identities(req.login_key)) = 2
  /\ req.identity_id = Identities(req.login_key)[2].Id
  /\ req.identity_id # Identities(req.login_key)[1].Id
  /\ Validated(resp.cookies.login_key).Id = Identities(req.login_key)[1].Id

\* The response_type that the authorization request of this /approve holds.
ApprovedResponseType == req.auth_request.claims.response_type

\* /approve hands out an authorization code.
ApproveIssuesCode ==
  /\ req.endpoint = "/approve"
  /\ resp.status = 303
  /\ CodeIssued(resp)

\* C33: only the response types code and none are served: an /auth request
\* whose response_type is any other non-empty value (token, id_token) never
\* leads to /approve issuing an authorization code.
C33_OnlyCodeAndNone ==
  ApproveIssuesCode => ApprovedResponseType = "code"

\* C33's failing case: the /auth request asked for response_type=token, and
\* /approve answers it with an authorization code.
C33_Witness ==
  /\ ApproveIssuesCode
  /\ ApprovedResponseType = "token"
  /\ flow.approve.auth.response_type = "token"
  /\ resp.location.query.code = flow.approve.minted.code

\* C33, where it does hold: no code is issued for response_type none, and
\* none for a request without a response_type.
C33_NoCodeForNone ==
  ApproveIssuesCode => ApprovedResponseType \notin {"none", ""}

\* The code that the request for response_type=token led to is redeemed at
\* /token.
C33_WitnessRedeemed ==
  /\ req.endpoint = "/token"
  /\ IssuesTokens(resp)
  /\ flow.approve.auth.response_type = "token"

=============================================================================
